---- MODULE Spec2Model ----
(***************************************************************************)
(* A model of the lorca protocol client (chrome.go, ui.go): the request    *)
(* correlator (Chrome.Send), the dispatcher (Chrome.readLoop), the binding *)
(* bridge (Chrome.Bind and the script injected by readLoop), teardown      *)
(* (Chrome.Kill) and construction (NewChromeWithArgs).                     *)
(***************************************************************************)
EXTENDS Integers, Sequences, FiniteSets, TLC

(* ------------------------------ bounds -------------------------------- *)
MaxCallers == 2     \* caller tasks that run Send concurrently
MaxSends == 2       \* Send calls made by the callers after construction
MaxKills == 2       \* calls of Kill made by the user
MaxNoise == 1       \* frames the remote side sends that answer no request
MaxCalls == 2       \* page-side calls of the bound function
MaxEntries == 3     \* entries of the browser's navigation history
MaxNavs == 2        \* calls of Load, Back and Forward
MaxParams == 2      \* parameters of a host function bound through UI.Bind
MaxArgs == 3        \* arguments of a page-side call of that function
MaxUICalls == 1     \* page-side calls of that function
MaxWinOps == 2      \* calls of SetBounds and Bounds

(* ------------------------- program constants -------------------------- *)
FirstId == 2            \* chrome.go:55, the counter's initial value
DiscoverId == 0          \* chrome.go:128, the id of the discover-targets command
AttachId == 1            \* chrome.go:155, the id of the attach-to-target command
NumDomains == 7         \* chrome.go:98-106, the domains enabled by Send
NumBindSends == 3       \* chrome.go:460, 488, 492, the Sends of one Bind
MaxInt32 == 2147483647  \* chrome.go:43, id is an int32
BackDelta == 1          \* chrome.go:447, the delta Back passes to goDelta
ForwardDelta == 1       \* chrome.go:452, the delta Forward passes to goDelta
MinInt32 == -MaxInt32 - 1

Session == "S"          \* c.session, the active session
StaleSession == "S0"    \* any other session id
Target == "T"           \* c.target, the active target
OtherTarget == "T0"

VARIABLES
  id,         \* c.id, the request-id counter
  allocated,  \* history: the ids returned by atomic.AddInt32, in order
  pending,    \* c.pending: the set of ids that have a waiter channel
  bindings,   \* c.bindings: the registered binding names
  mutex,      \* the holder of c.Mutex, or None
  ws,         \* the Transport: "nil", "open", "closed", "remoteClosed"
  inbox,      \* frames sent by the remote side, not yet read
  wire,       \* commands written to the Transport, not yet answered; fwd: forwarded by Send
  pc,         \* each task's position
  sid,        \* each task's allocated id (0: none)
  done,       \* history: the returns of Send, [task, id, from, rep, out]
  dpc,        \* the Dispatcher's position
  dframe,     \* the frame the Dispatcher is handling
  dout,       \* the outcome the Dispatcher is handing to a waiter
  proc,       \* the spawned process: "running", "exited", "killed"
  waited,     \* Cmd.ProcessState is set (Cmd.Wait has returned)
  kills,      \* history: the calls of Kill, in order
  log,        \* number of messages given to the log sink
  noise,      \* number of unrequested frames sent by the remote side
  sends,      \* number of Send calls made by the callers
  req,        \* each task's command: the script it evaluates, or NoScript
  payload,    \* each binding invocation task's decoded payload
  shim,       \* the page runs the wrapper installed by Bind
  lastSeq,    \* page: window[name]['lastSeq']
  callbacks,  \* page: the keys of window[name]['callbacks']
  errors,     \* page: the keys of window[name]['errors']
  calls,      \* history: the arguments of the page-side calls, by seq
  settled,    \* history: the calls of resolve and reject functions
  cpc,        \* NewChromeWithArgs: the constructor's position
  cstep,      \* NewChromeWithArgs: the number of domains enabled
  headless,   \* NewChromeWithArgs: args contain "--headless"
  window,     \* c.window
  drops,      \* history: the frames the Dispatcher dropped
  hist,       \* the browser's navigation history: currentIndex and length
  navs,       \* history: the calls of Back and Forward
  usig,       \* the signature of the host function given to UI.Bind
  ucalls,     \* history: the calls of the handler UI.Bind registered
  upc,        \* UI.Close: the caller's position
  udone,      \* u.done is closed
  bpc,        \* Chrome.Bind: the caller's position
  bcmds,      \* history: the commands Bind has sent, in order
  wops,       \* history: the calls of SetBounds and Bounds
  kcall       \* each caller of Kill: its position in Kill and the state it began in

page == <<shim, lastSeq, callbacks, errors, calls, settled>>

ctor == <<cpc, cstep, headless, window>>

nav == <<hist, navs>>

ui == <<usig, ucalls, upc, udone>>

bind == <<bpc, bcmds>>

vars == <<id, allocated, pending, bindings, mutex, ws, inbox, wire, pc, sid,
          done, dpc, dframe, dout, proc, waited, kills, kcall, log, noise, sends,
          req, payload, page, ctor, drops, nav, ui, bind, wops, kcall>>

None == <<"none", 0>>
Disp == <<"d", 0>>
User == <<"u", 0>>
Ctor == <<"n", 0>>
Binder == <<"k", 0>>
Nav == <<"v", 0>>
Win == <<"w", 0>>
Callers == {<<"c", n>> : n \in 1..MaxCallers}
BTasks == {<<"b", n>> : n \in 1..MaxCalls}
Tasks == Callers \cup BTasks \cup {Ctor, Binder, Nav, Win}

\* The callers of Kill, and a caller that is not in Kill
Killers == {User, Disp, Ctor}
NoKill == [at |-> "off", wsBefore |-> "", procBefore |-> ""]

(* ------------------------------ messages ------------------------------ *)
\* The fields of a reply that readLoop looks at (targetMessage): the error
\* message, the exception value, the type and subtype of the result; tag
\* stands for the content (the request the remote side answered).
NoRep == [err |-> "none", exc |-> FALSE, type |-> "", subtype |-> "", tag |-> 0]

\* The payload of a binding call, {name, seq, args}, with the execution
\* context; `at` is history: the number of ids allocated when it was decoded
NoCall == [name |-> "", seq |-> 0, args |-> "", at |-> 0]

NoFrame == [top |-> "", sess |-> "", id |-> 0, method |-> "", target |-> "",
            rep |-> NoRep, bname |-> "", call |-> NoCall, info |-> ""]

\* The script a binding invocation task evaluates in the page; origin and
\* args are history: the payload the task was started with
NoScript == [name |-> "", seq |-> 0, result |-> "", error |-> "", origin |-> 0, args |-> ""]

NoOut == [kind |-> "", field |-> "", tag |-> 0]

\* A browser history of one entry, the page the browser was started with
OnePage == [index |-> 0, len |-> 1]

\* No host function is bound through UI.Bind
NoSig == [ins |-> <<>>, outs |-> "none"]

\* res.Error.Message: the empty string when the error field is absent or
\* carries no message
ErrorMessage(rep) == IF rep.err = "msg" THEN "E" ELSE ""

\* The mutant: the typed-error case is tried before the exception value.
DecodeSwapped(rep) ==
  IF ErrorMessage(rep) # "" THEN [kind |-> "err", field |-> "error.message", tag |-> rep.tag]
  ELSE IF rep.type = "object" /\ rep.subtype = "error"
    THEN [kind |-> "err", field |-> "description", tag |-> rep.tag]
  ELSE IF rep.exc THEN [kind |-> "err", field |-> "exception.value", tag |-> rep.tag]
  ELSE IF rep.type # "" THEN [kind |-> "val", field |-> "value", tag |-> rep.tag]
  ELSE [kind |-> "val", field |-> "raw", tag |-> rep.tag]

\* readLoop, lines 321-333: the outcome handed to the waiter
Decode(rep) ==
  IF ErrorMessage(rep) # "" THEN [kind |-> "err", field |-> "error.message", tag |-> rep.tag]
  ELSE IF rep.exc THEN [kind |-> "err", field |-> "exception.value", tag |-> rep.tag]
  ELSE IF rep.type = "object" /\ rep.subtype = "error"
    THEN [kind |-> "err", field |-> "description", tag |-> rep.tag]
  ELSE IF rep.type # "" THEN [kind |-> "val", field |-> "value", tag |-> rep.tag]
  ELSE [kind |-> "val", field |-> "raw", tag |-> rep.tag]

(* ------------------------------- Init --------------------------------- *)
\* A quiescent state of a connection whose counter stands at `last` after
\* the allocations `history`: the Transport is open, the Dispatcher waits
\* for a frame
InitAt(last, history, bound, installed) ==
  /\ id = last
  /\ allocated = history
  /\ pending = {}
  /\ bindings = bound
  /\ mutex = None
  /\ ws = "open"
  /\ inbox = <<>>
  /\ wire = {}
  /\ pc = [t \in Tasks |-> IF t \in Callers THEN "idle" ELSE "off"]
  /\ sid = [t \in Tasks |-> 0]
  /\ done = {}
  /\ dpc = "read"
  /\ dframe = NoFrame
  /\ dout = [chan |-> 0, from |-> 0, out |-> NoOut]
  /\ proc = "running"
  /\ waited = FALSE
  /\ kills = <<>>
  /\ log = 0
  /\ noise = 0
  /\ sends = 0
  /\ req = [t \in Tasks |-> NoScript]
  /\ payload = [t \in BTasks |-> NoCall]
  /\ shim = installed
  /\ lastSeq = 0
  /\ callbacks = {}
  /\ errors = {}
  /\ calls = <<>>
  /\ settled = <<>>
  /\ cpc = "done"
  /\ cstep = NumDomains
  /\ headless = TRUE
  /\ window = 0
  /\ drops = {}
  /\ navs = <<>>
  /\ ucalls = <<>>
  /\ upc = "idle"
  /\ udone = FALSE
  /\ bpc = "off"
  /\ bcmds = <<>>
  /\ wops = <<>>
  /\ kcall = [k \in Killers |-> NoKill]

\* A quiescent state of a connection on which nIds Sends have returned
InitWith(nIds, bound, installed) ==
  InitAt(FirstId + nIds, [i \in 1..nIds |-> FirstId + i], bound, installed)

\* The state NewChromeWithArgs returns (headless): the domain-enable Sends
\* used ids 3..9
Init == InitWith(NumDomains, {}, FALSE) /\ hist = OnePage /\ usig = NoSig

\* A connection at three moments of its life: when NewChromeWithArgs has
\* returned, when the counter is about to pass the largest int32, and when
\* it is about to reach 0 again; the history holds the last id allocated
InitWrap ==
  \E last \in {FirstId + NumDomains, MaxInt32 - 1, -1} :
    InitAt(last, <<last>>, {}, FALSE) /\ hist = OnePage /\ usig = NoSig

\* The state after Bind("add", f) has returned nil on a new connection
InitBridge == InitWith(NumDomains + NumBindSends, {"add"}, TRUE) /\ hist = OnePage /\ usig = NoSig

\* The state of NewChromeWithArgs after c.Cmd.Start() has succeeded: no
\* Transport yet, the Dispatcher not started
InitCtor ==
  /\ id = FirstId
  /\ allocated = <<>>
  /\ pending = {}
  /\ bindings = {}
  /\ mutex = None
  /\ ws = "nil"
  /\ inbox = <<>>
  /\ wire = {}
  /\ pc = [t \in Tasks |-> "off"]
  /\ sid = [t \in Tasks |-> 0]
  /\ done = {}
  /\ dpc = "off"
  /\ dframe = NoFrame
  /\ dout = [chan |-> 0, from |-> 0, out |-> NoOut]
  /\ proc = "running"
  /\ waited = FALSE
  /\ kills = <<>>
  /\ log = 0
  /\ noise = 0
  /\ sends = 0
  /\ req = [t \in Tasks |-> NoScript]
  /\ payload = [t \in BTasks |-> NoCall]
  /\ shim = FALSE
  /\ lastSeq = 0
  /\ callbacks = {}
  /\ errors = {}
  /\ calls = <<>>
  /\ settled = <<>>
  /\ cpc = "match"
  /\ cstep = 0
  /\ headless \in BOOLEAN
  /\ window = 0
  /\ hist = OnePage
  /\ usig = NoSig
  /\ drops = {}
  /\ navs = <<>>
  /\ ucalls = <<>>
  /\ upc = "idle"
  /\ udone = FALSE
  /\ bpc = "off"
  /\ bcmds = <<>>
  /\ wops = <<>>
  /\ kcall = [k \in Killers |-> NoKill]

(* --------------------------- the Transport ---------------------------- *)
\* websocket.JSON.Send on the Transport: it succeeds on an open connection,
\* fails on one closed locally, and on one the remote side closed it fails
\* or the frame is lost
WriteResults(w) ==
  IF w = "open" THEN {"ok"} ELSE IF w = "remoteClosed" THEN {"ok", "err"} ELSE {"err"}

\* c.ws.Close(): closing a connection that is already closed is an error;
\* writing the close frame to a connection the remote side closed may fail
CloseResults(w) ==
  IF w = "closed" THEN {"err"} ELSE IF w = "remoteClosed" THEN {"ok", "err"} ELSE {"ok"}

\* websocket.JSON.Receive fails: the connection was closed locally, or the
\* remote side closed it and every frame it sent has been read
ReceiveFails == ws = "closed" \/ ws = "nil" \/ (ws = "remoteClosed" /\ inbox = <<>>)

(* ------------------------------- Kill --------------------------------- *)
\* Chrome.Kill called by task `by`, lines 581-585: c.ws.Close(). An error
\* of Close is returned at once; otherwise Kill goes on to the process
KillClose(by) ==
  \E cr \in CloseResults(ws) :
    LET closeErr == ws # "nil" /\ cr = "err" IN
    /\ kcall[by].at = "off"
    /\ ws' = IF ws = "nil" THEN "nil" ELSE "closed"
    /\ proc' = proc
    /\ IF closeErr
         THEN /\ kills' = Append(kills, [by |-> by, wsBefore |-> ws, procBefore |-> proc,
                                         signalled |-> FALSE, err |-> TRUE])
              /\ kcall' = kcall
         ELSE /\ kills' = kills
              /\ kcall' = [kcall EXCEPT ![by] = [at |-> "state", wsBefore |-> ws, procBefore |-> proc]]

\* Chrome.Kill, line 587: the read of c.Cmd.ProcessState, and line 588:
\* c.Cmd.Process.Kill(), which fails once Cmd.Wait has returned
KillProcess(by) ==
  LET k == kcall[by]
      ret(sig, e) == /\ kills' = Append(kills, [by |-> by, wsBefore |-> k.wsBefore,
                                                procBefore |-> k.procBefore,
                                                signalled |-> sig, err |-> e])
                     /\ kcall' = [kcall EXCEPT ![by] = NoKill]
  IN  /\ k.at # "off"
      /\ ws' = ws
      /\ IF k.at = "state"
           THEN /\ proc' = proc
                /\ IF waited /\ proc = "exited"
                     THEN ret(FALSE, FALSE)
                     ELSE kills' = kills /\ kcall' = [kcall EXCEPT ![by].at = "signal"]
           ELSE IF waited
                  THEN proc' = proc /\ ret(FALSE, TRUE)
                  ELSE /\ proc' = IF proc = "running" THEN "killed" ELSE proc
                       /\ ret(TRUE, FALSE)

\* Kill has returned to task `by` in this step
KillReturned(by) == kcall'[by].at = "off"

\* The calls of Kill the user has made, the one in progress included
UserKills ==
  Len(SelectSeq(kills, LAMBDA k : k.by = User)) + (IF kcall[User].at = "off" THEN 0 ELSE 1)

\* a variant of Kill that also empties the table of pending requests
KillCancelling ==
  /\ UserKills < MaxKills
  /\ KillClose(User)
  /\ pending' = {}
  /\ UNCHANGED <<id, allocated, bindings, mutex, inbox, wire, pc, sid,
                 done, dpc, dframe, dout, waited, log, noise,
                 sends, req, payload, page, ctor,
                 drops, nav, ui, bind, wops>>

\* Chrome.Kill called by the user, lines 580-585: it touches the websocket
\* and the process and nothing else
Kill ==
  /\ UserKills < MaxKills
  /\ KillClose(User)
  /\ UNCHANGED <<id, allocated, pending, bindings, mutex, inbox, wire, pc, sid,
                 done, dpc, dframe, dout, waited, log, noise,
                 sends, req, payload, page, ctor,
                 drops, nav, ui, bind, wops>>

\* Chrome.Kill, lines 587-590, in the task that called it; when Kill
\* returns the task goes on: readLoop returns (line 342), the constructor
\* returns the error or waits for the process (lines 109-110), UI.Close
\* waits for u.done (ui.go:153)
KillAdvance(by) ==
  /\ KillProcess(by)
  /\ dpc' = IF by = Disp /\ KillReturned(by) THEN "done" ELSE dpc
  /\ cpc' = IF by = Ctor /\ KillReturned(by)
              THEN (IF cpc = "killWait" THEN "wait" ELSE "failed")
              ELSE cpc
  /\ upc' = IF by = User /\ KillReturned(by) /\ upc = "kill" THEN "wait" ELSE upc
  /\ UNCHANGED <<id, allocated, pending, bindings, mutex, inbox, wire, pc, sid,
                 done, dframe, dout, waited, log, noise,
                 sends, req, payload, page, cstep, headless, window,
                 drops, nav, usig, ucalls, udone, bind, wops>>

(* ------------------------------- Send --------------------------------- *)
\* The mutant: the counter is read and not advanced.
AddInt32Stale(x) == x

\* atomic.AddInt32(&c.id, 1)
AddInt32(x) == IF x = MaxInt32 THEN MinInt32 ELSE x + 1

\* Where a task goes on when its Send returns
AfterSend(t) == IF t \in Callers THEN "idle" ELSE IF t \in {Ctor, Binder, Nav, Win} THEN "sent" ELSE "end"

\* Send returns: `from` and `rep` are history, the id and the fields of the
\* reply the outcome was decoded from (0 and NoRep when there is no reply)
Return(t, from, rep, out) ==
  /\ done' = done \cup {[task |-> t, id |-> sid[t], from |-> from, rep |-> rep, out |-> out]}
  /\ pc' = [pc EXCEPT ![t] = AfterSend(t)]

\* Send, lines 350-354: allocate the id, serialize the command
SendAlloc(t, marshalOk) ==
  /\ pc[t] = "idle"
  /\ t \in Callers => sends < MaxSends
  /\ t = Ctor => cpc \in {"enable", "window"}
  /\ sends' = IF t \in Callers THEN sends + 1 ELSE sends
  /\ id' = AddInt32(id)
  /\ allocated' = Append(allocated, id')
  /\ sid' = [sid EXCEPT ![t] = id']
  /\ IF marshalOk
       THEN pc' = [pc EXCEPT ![t] = "lock"] /\ done' = done
       ELSE /\ done' = done \cup {[task |-> t, id |-> id', from |-> 0, rep |-> NoRep,
                                   out |-> [kind |-> "err", field |-> "marshal", tag |-> 0]]}
            /\ pc' = pc
  /\ UNCHANGED <<pending, bindings, mutex, ws, inbox, wire, dpc, dframe, dout,
                 proc, waited, kills, kcall, log, noise,
                 req, payload, page, ctor,
                 drops, nav, ui, bind, wops>>

\* Send, line 356: c.Lock()
SendLock(t) ==
  /\ pc[t] = "lock"
  /\ mutex = None
  /\ mutex' = t
  /\ pc' = [pc EXCEPT ![t] = "reg"]
  /\ UNCHANGED <<id, allocated, pending, bindings, ws, inbox, wire, sid, done,
                 dpc, dframe, dout, proc, waited, kills, kcall, log, noise,
                 sends, req, payload, page, ctor,
                 drops, nav, ui, bind, wops>>

\* The mutant: the lock is released and the request is written while the
\* waiter is not in the table.
SendRegisterSkip(t) ==
  /\ pc[t] = "reg"
  /\ pending' = pending
  /\ mutex' = None
  /\ pc' = [pc EXCEPT ![t] = "write"]
  /\ UNCHANGED <<id, allocated, bindings, ws, inbox, wire, sid, done,
                 dpc, dframe, dout, proc, waited, kills, kcall, log, noise,
                 sends, req, payload, page, ctor, drops, nav, ui, bind, wops>>

\* Send, lines 357-358: c.pending[id] = resc; c.Unlock()
SendRegister(t) ==
  /\ pc[t] = "reg"
  /\ pending' = pending \cup {sid[t]}
  /\ mutex' = None
  /\ pc' = [pc EXCEPT ![t] = "write"]
  /\ UNCHANGED <<id, allocated, bindings, ws, inbox, wire, sid, done,
                 dpc, dframe, dout, proc, waited, kills, kcall, log, noise,
                 sends, req, payload, page, ctor,
                 drops, nav, ui, bind, wops>>

\* Send, lines 360-366: write the forward-to-target frame
SendWrite(t, res) ==
  /\ pc[t] = "write"
  /\ res \in WriteResults(ws)
  /\ IF res = "ok"
       THEN /\ pc' = [pc EXCEPT ![t] = "recv"]
            /\ wire' = IF ws = "open" THEN wire \cup {[id |-> sid[t], script |-> req[t], fwd |-> TRUE]} ELSE wire
            /\ done' = done
       ELSE /\ Return(t, 0, NoRep, [kind |-> "err", field |-> "write", tag |-> 0])
            /\ wire' = wire
  /\ UNCHANGED <<id, allocated, pending, bindings, mutex, ws, inbox, sid,
                 dpc, dframe, dout, proc, waited, kills, kcall, log, noise,
                 sends, req, payload, page, ctor,
                 drops, nav, ui, bind, wops>>

(* ---------------------------- Dispatcher ------------------------------ *)
\* The mutant: the waiter of the lowest pending id is taken.
PendingLookupFirst(table, rid) ==
  IF table = {} THEN [ok |-> FALSE, chan |-> 0]
  ELSE [ok |-> TRUE, chan |-> CHOOSE x \in table : \A y \in table : x <= y]

\* readLoop, line 313: resc, ok := c.pending[res.ID]
PendingLookup(table, rid) ==
  IF rid \in table THEN [ok |-> TRUE, chan |-> rid] ELSE [ok |-> FALSE, chan |-> 0]

\* The mutant: the entry is left in the table.
PendingKeep(table, rid) == table

\* readLoop, line 314: delete(c.pending, res.ID)
PendingDelete(table, rid) == table \ {rid}

\* a variant that treats console and exception events like any other message
IsLoggedNever(f) == FALSE

\* readLoop, line 273: the inner message goes to the log sink
IsLogged(f) ==
  (f.id = 0 /\ f.method = "Runtime.consoleAPICalled") \/ f.method = "Runtime.exceptionThrown"

\* The mutant: the session id of a forwarded message is not looked at.
IsStaleNever(f) == FALSE

\* readLoop, lines 267-269: params.SessionID != c.session
IsStale(f) == f.sess # Session

\* The record of a dropped frame
Dropped(f, why) ==
  [sess |-> f.sess, id |-> f.id, method |-> f.method, tag |-> f.rep.tag, why |-> why]

\* readLoop, line 275
IsBindingCall(f) == f.id = 0 /\ f.method = "Runtime.bindingCalled"

\* readLoop, lines 256-259: websocket.JSON.Receive cannot decode the frame
\* into the envelope (text that is not JSON, or a field of the wrong type)
\* and returns an error, although the Transport is still open
Undecodable(f) == f.top = "" /\ f.info = "undecodable"

\* a variant that tears down on the destruction of any target
IsAnyTarget(f) == f.target # ""

\* readLoop, line 340: params.TargetID == c.target
IsActiveTarget(f) == f.target = Target

\* readLoop, lines 255-281 and 334-340: read one frame and route it, up to
\* the point where the Dispatcher takes the lock, calls Kill, returns or
\* loops; a message given to the log sink goes on to the lookup of line 312
DispRecv ==
  /\ dpc = "read"
  /\ IF ReceiveFails
       THEN /\ dpc' = "done"
            /\ UNCHANGED <<inbox, dframe, log, ws, proc, kills, kcall>>
       ELSE /\ inbox # <<>>
            /\ inbox' = Tail(inbox)
            /\ LET f == Head(inbox) IN
               IF f.top = "Target.receivedMessageFromTarget"
                 THEN /\ UNCHANGED <<ws, proc, kills, kcall>>
                      /\ IF IsStale(f)
                           THEN UNCHANGED <<dpc, dframe, log>>
                         ELSE IF IsLogged(f)
                           THEN log' = log + 1 /\ dpc' = "lockPending" /\ dframe' = f
                         ELSE IF IsBindingCall(f)
                           THEN dpc' = "lockBinding" /\ dframe' = f /\ log' = log
                         ELSE dpc' = "lockPending" /\ dframe' = f /\ log' = log
               ELSE IF f.top = "Target.targetDestroyed" /\ IsActiveTarget(f)
                 THEN /\ dpc' = "kill"
                      /\ UNCHANGED <<dframe, log, ws, proc, kills, kcall>>
               ELSE IF Undecodable(f)
                 THEN /\ dpc' = "done"
                      /\ UNCHANGED <<dframe, log, ws, proc, kills, kcall>>
               ELSE UNCHANGED <<dpc, dframe, log, ws, proc, kills, kcall>>
  /\ drops' = IF /\ ~ReceiveFails
                 /\ inbox # <<>>
                 /\ Head(inbox).top = "Target.receivedMessageFromTarget"
                 /\ IsStale(Head(inbox))
                THEN drops \cup {Dropped(Head(inbox), "session")}
                ELSE drops
  /\ UNCHANGED <<id, allocated, pending, bindings, mutex, wire, pc, sid, done,
                 dout, waited, noise,
                 sends, req, payload, page, ctor,
                 nav, ui, bind, wops>>

\* readLoop, lines 341-342: c.Kill(); return
DispKill ==
  /\ dpc = "kill"
  /\ KillClose(Disp)
  /\ dpc' = IF KillReturned(Disp) THEN "done" ELSE "kill"
  /\ UNCHANGED <<id, allocated, pending, bindings, mutex, inbox, wire, pc, sid, done,
                 dframe, dout, waited, log, noise,
                 sends, req, payload, page, ctor,
                 drops, nav, ui, bind, wops>>

\* readLoop, line 312: c.Lock()
DispLockPending ==
  /\ dpc = "lockPending"
  /\ mutex = None
  /\ mutex' = Disp
  /\ dpc' = "takePending"
  /\ UNCHANGED <<id, allocated, pending, bindings, ws, inbox, wire, pc, sid, done,
                 dframe, dout, proc, waited, kills, kcall, log, noise,
                 sends, req, payload, page, ctor,
                 drops, nav, ui, bind, wops>>

\* readLoop, lines 313-333: take the waiter out of the table, unlock, and
\* decode the outcome to hand over
DispTakePending ==
  /\ dpc = "takePending"
  /\ LET l == PendingLookup(pending, dframe.id) IN
       /\ pending' = PendingDelete(pending, dframe.id)
       /\ mutex' = None
       /\ IF l.ok
            THEN /\ dpc' = "deliver"
                 /\ dout' = [chan |-> l.chan, from |-> dframe.id, out |-> Decode(dframe.rep)]
                 /\ dframe' = dframe
            ELSE /\ dpc' = "read"
                 /\ dout' = dout
                 /\ dframe' = NoFrame
       /\ drops' = IF l.ok THEN drops ELSE drops \cup {Dropped(dframe, "nowaiter")}
  /\ UNCHANGED <<id, allocated, bindings, ws, inbox, wire, pc, sid, done,
                 proc, waited, kills, kcall, log, noise,
                 sends, req, payload, page, ctor,
                 nav, ui, bind, wops>>

\* readLoop `resc <- result{...}` meeting Send, lines 367-368, `res := <-resc`:
\* the channel is unbuffered, the two tasks step together
DispDeliver(t) ==
  /\ dpc = "deliver"
  /\ pc[t] = "recv"
  /\ sid[t] = dout.chan
  /\ Return(t, dout.from, dframe.rep, dout.out)
  /\ dpc' = "read"
  /\ dframe' = NoFrame
  /\ dout' = [chan |-> 0, from |-> 0, out |-> NoOut]
  /\ UNCHANGED <<id, allocated, pending, bindings, mutex, ws, inbox, wire, sid,
                 proc, waited, kills, kcall, log, noise,
                 sends, req, payload, page, ctor,
                 drops, nav, ui, bind, wops>>

(* ------------------------- the remote side ---------------------------- *)
Frame(top, sess, rid, method, target, rep) ==
  [top |-> top, sess |-> sess, id |-> rid, method |-> method, target |-> target,
   rep |-> rep, bname |-> "", call |-> NoCall, info |-> ""]

\* The replies the browser gives to a command: a typed value, a protocol
\* error, an exception
BasicShapes ==
  { [err |-> "none", exc |-> FALSE, type |-> "number", subtype |-> "", tag |-> 0],
    [err |-> "msg", exc |-> FALSE, type |-> "", subtype |-> "", tag |-> 0],
    [err |-> "none", exc |-> TRUE, type |-> "string", subtype |-> "", tag |-> 0] }

Emit(f) ==
  /\ ws = "open"
  /\ inbox' = Append(inbox, f)

\* The browser answers a command Send forwarded to the target, in any order
RemoteReply(r, shape) ==
  /\ r \in wire
  /\ r.script = NoScript
  /\ r.fwd
  /\ Emit(Frame("Target.receivedMessageFromTarget", Session, r.id, "", "",
                [shape EXCEPT !.tag = r.id]))
  /\ wire' = wire \ {r}
  /\ UNCHANGED <<id, allocated, pending, bindings, mutex, ws, pc, sid, done,
                 dpc, dframe, dout, proc, waited, kills, kcall, log, noise,
                 sends, req, payload, page, ctor,
                 drops, nav, ui, bind, wops>>

\* Frames that answer no request of this session
NoiseIds == {0, FirstId + NumDomains + 1}

NoiseFrames ==
  { Frame("Target.receivedMessageFromTarget", s, i, "", "",
          [err |-> "none", exc |-> FALSE, type |-> "number", subtype |-> "", tag |-> -1]) :
      s \in {Session, StaleSession}, i \in NoiseIds }
  \cup { Frame("Target.receivedMessageFromTarget", Session, 0, m, "", NoRep) :
      m \in {"Runtime.consoleAPICalled", "Runtime.exceptionThrown", "Page.frameNavigated"} }
  \cup { Frame("", "", i, "", "", NoRep) : i \in NoiseIds }
  \cup { Frame("Target.targetDestroyed", "", 0, "", tg, NoRep) : tg \in {Target, OtherTarget} }

RemoteNoise(f) ==
  /\ noise < MaxNoise
  /\ noise' = noise + 1
  /\ Emit(f)
  /\ UNCHANGED <<id, allocated, pending, bindings, mutex, ws, wire, pc, sid, done,
                 dpc, dframe, dout, proc, waited, kills, kcall, log,
                 sends, req, payload, page, ctor,
                 drops, nav, ui, bind, wops>>

\* The remote side closes the Transport
RemoteClose ==
  /\ ws = "open"
  /\ ws' = "remoteClosed"
  /\ UNCHANGED <<id, allocated, pending, bindings, mutex, inbox, wire, pc, sid, done,
                 dpc, dframe, dout, proc, waited, kills, kcall, log, noise,
                 sends, req, payload, page, ctor,
                 drops, nav, ui, bind, wops>>

\* The browser process exits by itself (the user closes the window)
ProcExit ==
  /\ proc = "running"
  /\ proc' = "exited"
  /\ ws' = IF ws = "open" THEN "remoteClosed" ELSE ws
  /\ UNCHANGED <<id, allocated, pending, bindings, mutex, inbox, wire, pc, sid, done,
                 dpc, dframe, dout, waited, kills, kcall, log, noise,
                 sends, req, payload, page, ctor,
                 drops, nav, ui, bind, wops>>

\* ui.go New, lines 89-92: chrome.Cmd.Wait() returns, ProcessState is set
CmdWait ==
  /\ proc # "running"
  /\ ~waited
  /\ waited' = TRUE
  /\ UNCHANGED <<id, allocated, pending, bindings, mutex, ws, inbox, wire, pc, sid,
                 done, dpc, dframe, dout, proc, kills, kcall, log, noise,
                 sends, req, payload, page, ctor,
                 drops, nav, ui, bind, wops>>

(* -------------------------- binding bridge ---------------------------- *)
\* The arguments of a page-side call; they decide what the handler does
ArgSets == {"2,3", "1,2,3", "emptyerr", "nan"}

\* A bound handler (bindingFunc): it returns a value, an error with a
\* message, an error whose message is empty, or a value json.Marshal rejects
Handler(args) ==
  IF args = "2,3" THEN [failed |-> FALSE, r |-> "5", msg |-> ""]
  ELSE IF args = "1,2,3" THEN [failed |-> TRUE, r |-> "", msg |-> "2 arguments expected"]
  ELSE IF args = "emptyerr" THEN [failed |-> TRUE, r |-> "", msg |-> ""]
  ELSE [failed |-> FALSE, r |-> "NaN", msg |-> ""]

\* json.Marshal(r), line 292
Marshal(r) ==
  IF r = "NaN" THEN [ok |-> FALSE, text |-> "", msg |-> "json: unsupported value: NaN"]
  ELSE [ok |-> TRUE, text |-> r, msg |-> ""]

\* jsString, line 287: the JSON string literal of v
JsString(v) == "\"" \o v \o "\""

\* The mutant: the script settles the oldest call that is not yet answered,
\* as if invocations completed in call order.
ScriptSeqByCompletion(p) == Cardinality({b \in BTasks : pc[b] \notin {"off", "handler"}}) + 1

\* readLoop, line 305: the sequence number the script is built with
ScriptSeq(p) == p.seq

\* readLoop, lines 289-305: the script built from the handler's outcome
BuildScript(p) ==
  LET h == Handler(p.args)
      m == Marshal(h.r)
      error  == IF h.failed THEN JsString(h.msg)
                ELSE IF ~m.ok THEN JsString(m.msg) ELSE "\"\""
      result == IF ~h.failed /\ m.ok THEN m.text ELSE ""
  IN  [name |-> p.name, seq |-> ScriptSeq(p), result |-> result, error |-> error,
       origin |-> p.seq, args |-> p.args]

\* The shim installed by Bind, lines 466-485: a page-side call of the bound
\* function allocates a sequence number, stores the settle-pair and raises
\* the binding event
PageCall(args) ==
  /\ shim
  /\ ws = "open"
  /\ proc = "running"
  /\ lastSeq < MaxCalls
  /\ lastSeq' = lastSeq + 1
  /\ callbacks' = callbacks \cup {lastSeq + 1}
  /\ errors' = errors \cup {lastSeq + 1}
  /\ calls' = Append(calls, args)
  /\ inbox' = Append(inbox,
       [Frame("Target.receivedMessageFromTarget", Session, 0, "Runtime.bindingCalled", "", NoRep)
          EXCEPT !.bname = "add",
                 !.call = [name |-> "add", seq |-> lastSeq + 1, args |-> args, at |-> 0]])
  /\ UNCHANGED <<id, allocated, pending, bindings, mutex, ws, wire, pc, sid, done,
                 dpc, dframe, dout, proc, waited, kills, kcall, log, noise, sends, req,
                 payload, shim, settled, ctor,
                 drops, nav, ui, bind, wops>>

\* readLoop, line 283: c.Lock()
DispLockBinding ==
  /\ dpc = "lockBinding"
  /\ mutex = None
  /\ mutex' = Disp
  /\ dpc' = "lookupBinding"
  /\ UNCHANGED <<id, allocated, pending, bindings, ws, inbox, wire, pc, sid, done,
                 dframe, dout, proc, waited, kills, kcall, log, noise, sends, req, payload, page, ctor,
                 drops, nav, ui, bind, wops>>

\* The mutant: the Dispatcher runs the handler itself and waits for the
\* reply to the script it sends.
SpawnInline(b, p) ==
  /\ pc' = [pc EXCEPT ![b] = "handler"]
  /\ payload' = [payload EXCEPT ![b] = [p EXCEPT !.at = Len(allocated)]]
  /\ dpc' = "inHandler"

\* readLoop, line 288: go func() { ... }()
Spawn(b, p) ==
  /\ pc' = [pc EXCEPT ![b] = "handler"]
  /\ payload' = [payload EXCEPT ![b] = [p EXCEPT !.at = Len(allocated)]]
  /\ dpc' = "read"

\* readLoop, lines 284-309: look the handler up, unlock, start the task
DispLookupBinding ==
  /\ dpc = "lookupBinding"
  /\ mutex' = None
  /\ dframe' = NoFrame
  /\ IF dframe.bname \in bindings /\ \E b \in BTasks : pc[b] = "off"
       THEN LET b == CHOOSE x \in BTasks : pc[x] = "off" /\ \A y \in BTasks : pc[y] = "off" => x[2] <= y[2]
            IN  Spawn(b, dframe.call)
       ELSE dpc' = "read" /\ UNCHANGED <<pc, payload>>
  /\ UNCHANGED <<id, allocated, pending, bindings, ws, inbox, wire, sid, done,
                 dout, proc, waited, kills, kcall, log, noise, sends, req, page, ctor,
                 drops, nav, ui, bind, wops>>

\* readLoop, lines 289-305: the handler returns and the task builds the
\* script; the handler may also never return
HandlerReturn(b) ==
  /\ pc[b] = "handler"
  /\ req' = [req EXCEPT ![b] = BuildScript(payload[b])]
  /\ pc' = [pc EXCEPT ![b] = "idle"]
  /\ UNCHANGED <<id, allocated, pending, bindings, mutex, ws, inbox, wire, sid, done,
                 dpc, dframe, dout, proc, waited, kills, kcall, log, noise, sends, payload, page, ctor,
                 drops, nav, ui, bind, wops>>

\* The page evaluates the script of lines 297-305 and answers the request
PageEval(r) ==
  /\ r \in wire
  /\ r.script # NoScript
  /\ ws = "open"
  /\ LET sc == r.script
         truthy == sc.error # "\"\""
         found == shim /\ sc.seq \in (IF truthy THEN errors ELSE callbacks)
         reply == IF found
                    THEN [err |-> "none", exc |-> FALSE, type |-> "boolean", subtype |-> "", tag |-> r.id]
                    ELSE [err |-> "none", exc |-> FALSE, type |-> "object", subtype |-> "error", tag |-> r.id]
     IN  /\ IF found
              THEN /\ settled' = Append(settled,
                         [seq |-> sc.seq, how |-> IF truthy THEN "reject" ELSE "resolve",
                          text |-> IF truthy THEN sc.error ELSE sc.result,
                          origin |-> sc.origin, args |-> sc.args])
                   /\ callbacks' = callbacks \ {sc.seq}
                   /\ errors' = errors \ {sc.seq}
              ELSE UNCHANGED <<settled, callbacks, errors>>
         /\ inbox' = Append(inbox, Frame("Target.receivedMessageFromTarget", Session, r.id, "", "", reply))
  /\ wire' = wire \ {r}
  /\ UNCHANGED <<id, allocated, pending, bindings, mutex, ws, pc, sid, done,
                 dpc, dframe, dout, proc, waited, kills, kcall, log, noise, sends, req,
                 payload, shim, lastSeq, calls, ctor,
                 drops, nav, ui, bind, wops>>

(* --------------------------- construction ----------------------------- *)
WindowId == 5   \* the windowId the browser reports

\* NewChromeWithArgs: c.Kill(); return nil, err
CtorFail ==
  /\ KillClose(Ctor)
  /\ cpc' = IF KillReturned(Ctor) THEN "failed" ELSE "kill"

\* NewChromeWithArgs, lines 69-76: readUntilMatch finds the endpoint line,
\* or the stream ends first
CtorMatch(ok) ==
  /\ cpc = "match"
  /\ ok => proc = "running"
  /\ IF ok THEN cpc' = "dial" /\ UNCHANGED <<ws, proc, kills, kcall>> ELSE CtorFail
  /\ UNCHANGED <<id, allocated, pending, bindings, mutex, inbox, wire, pc, sid, done,
                 dpc, dframe, dout, waited, log, noise, sends, req, payload, page,
                 cstep, headless, window,
                 drops, nav, ui, bind, wops>>

\* NewChromeWithArgs, lines 78-83: websocket.Dial
CtorDial(ok) ==
  /\ cpc = "dial"
  /\ ok => proc = "running"
  /\ IF ok THEN cpc' = "findSend" /\ ws' = "open" /\ UNCHANGED <<proc, kills, kcall>> ELSE CtorFail
  /\ UNCHANGED <<id, allocated, pending, bindings, mutex, inbox, wire, pc, sid, done,
                 dpc, dframe, dout, waited, log, noise, sends, req, payload, page,
                 cstep, headless, window,
                 drops, nav, ui, bind, wops>>

\* findTarget, lines 127-132, and startSession, lines 154-159: write the
\* command of a negotiation exchange
CtorWrite(at, rid, next, res) ==
  /\ cpc = at
  /\ res \in WriteResults(ws)
  /\ IF res = "ok"
       THEN /\ cpc' = next
            /\ wire' = IF ws = "open" THEN wire \cup {[id |-> rid, script |-> NoScript, fwd |-> FALSE]} ELSE wire
            /\ UNCHANGED <<ws, proc, kills, kcall>>
       ELSE CtorFail /\ wire' = wire
  /\ UNCHANGED <<id, allocated, pending, bindings, mutex, inbox, pc, sid, done,
                 dpc, dframe, dout, waited, log, noise, sends, req, payload, page,
                 cstep, headless, window,
                 drops, nav, ui, bind, wops>>

CtorFindSend(res) == CtorWrite("findSend", DiscoverId, "findRecv", res)

CtorAttachSend(res) == CtorWrite("attachSend", AttachId, "attachRecv", res)

\* The mutant: go c.readLoop() follows findTarget, before startSession.
StartsReadLoopEarly(stage) == stage = "found"

\* NewChromeWithArgs, line 97: go c.readLoop() follows startSession
StartsReadLoop(stage) == stage = "attached"

\* findTarget, lines 133-150: read until a page target is announced
CtorFindRecv ==
  /\ cpc = "findRecv"
  /\ IF ReceiveFails
       THEN CtorFail /\ UNCHANGED <<inbox, dpc>>
       ELSE /\ inbox # <<>>
            /\ inbox' = Tail(inbox)
            /\ LET f == Head(inbox) IN
               IF f.top = "Target.targetCreated" /\ f.info = "malformed"
                 THEN CtorFail /\ dpc' = dpc
               ELSE IF f.top = "Target.targetCreated" /\ f.info = "page"
                 THEN /\ cpc' = "attachSend"
                      /\ dpc' = IF StartsReadLoop("found") THEN "read" ELSE dpc
                      /\ UNCHANGED <<ws, proc, kills, kcall>>
               ELSE UNCHANGED <<cpc, dpc, ws, proc, kills, kcall>>
  /\ UNCHANGED <<id, allocated, pending, bindings, mutex, wire, pc, sid, done,
                 dframe, dout, waited, log, noise, sends, req, payload, page,
                 cstep, headless, window,
                 drops, nav, ui, bind, wops>>

\* startSession, lines 160-176, and NewChromeWithArgs, lines 93-97: read
\* until the reply with id 1, then start the Dispatcher
CtorAttachRecv ==
  /\ cpc = "attachRecv"
  /\ IF ReceiveFails
       THEN CtorFail /\ UNCHANGED <<inbox, dpc, pc>>
       ELSE /\ inbox # <<>>
            /\ inbox' = Tail(inbox)
            /\ LET f == Head(inbox) IN
               IF f.id = AttachId /\ f.info \in {"error", "malformed"}
                 THEN CtorFail /\ UNCHANGED <<dpc, pc>>
               ELSE IF f.id = AttachId
                 THEN /\ cpc' = "enable"
                      /\ dpc' = IF StartsReadLoop("attached") THEN "read" ELSE dpc
                      /\ pc' = [pc EXCEPT ![Ctor] = "idle"]
                      /\ UNCHANGED <<ws, proc, kills, kcall>>
               ELSE UNCHANGED <<cpc, dpc, pc, ws, proc, kills, kcall>>
  /\ UNCHANGED <<id, allocated, pending, bindings, mutex, wire, sid, done,
                 dframe, dout, waited, log, noise, sends, req, payload, page,
                 cstep, headless, window,
                 drops, nav, ui, bind, wops>>

\* The outcome of the Send the constructor has just made
CtorSendFailed ==
  \E r \in done : r.task = Ctor /\ r.id = sid[Ctor] /\ r.out.kind = "err"

\* NewChromeWithArgs, lines 98-123: after each Send of the domain-enable
\* loop and after getWindowForTarget
CtorSent(unmarshalOk) ==
  /\ pc[Ctor] = "sent"
  /\ IF cpc = "enable"
       THEN IF CtorSendFailed
              THEN /\ KillClose(Ctor)
                   /\ cpc' = IF KillReturned(Ctor) THEN "wait" ELSE "killWait"
                   /\ pc' = [pc EXCEPT ![Ctor] = "off"]
                   /\ UNCHANGED <<cstep, window>>
              ELSE /\ cstep' = cstep + 1
                   /\ cpc' = IF cstep + 1 < NumDomains THEN "enable"
                             ELSE IF headless THEN "done" ELSE "window"
                   /\ pc' = [pc EXCEPT ![Ctor] = IF cstep + 1 = NumDomains /\ headless THEN "off" ELSE "idle"]
                   /\ UNCHANGED <<ws, proc, kills, kcall, window>>
       ELSE /\ cpc = "window"
            /\ pc' = [pc EXCEPT ![Ctor] = "off"]
            /\ cstep' = cstep
            /\ IF CtorSendFailed \/ ~unmarshalOk
                 THEN CtorFail /\ window' = window
                 ELSE cpc' = "done" /\ window' = WindowId /\ UNCHANGED <<ws, proc, kills, kcall>>
  /\ UNCHANGED <<id, allocated, pending, bindings, mutex, inbox, wire, sid, done,
                 dpc, dframe, dout, waited, log, noise, sends, req, payload, page,
                 headless,
                 drops, nav, ui, bind, wops>>

\* NewChromeWithArgs, lines 109-110: c.Cmd.Wait() returns when the process
\* has ended
CtorWait ==
  /\ cpc = "wait"
  /\ proc # "running"
  /\ waited' = TRUE
  /\ cpc' = "failed"
  /\ UNCHANGED <<id, allocated, pending, bindings, mutex, ws, inbox, wire, pc, sid,
                 done, dpc, dframe, dout, proc, kills, kcall, log, noise, sends, req,
                 payload, page, cstep, headless, window,
                 drops, nav, ui, bind, wops>>

\* The browser announces a target: the page, another target, or parameters
\* that do not decode
RemoteTargetCreated(info) ==
  /\ [id |-> DiscoverId, script |-> NoScript, fwd |-> FALSE] \in wire
  /\ info = "other" => noise < MaxNoise
  /\ noise' = IF info = "other" THEN noise + 1 ELSE noise
  /\ wire' = IF info = "other" THEN wire ELSE wire \ {[id |-> DiscoverId, script |-> NoScript, fwd |-> FALSE]}
  /\ Emit([Frame("Target.targetCreated", "", 0, "", Target, NoRep) EXCEPT !.info = info])
  /\ UNCHANGED <<id, allocated, pending, bindings, mutex, ws, pc, sid, done,
                 dpc, dframe, dout, proc, waited, kills, kcall, log, sends, req, payload,
                 page, ctor,
                 drops, nav, ui, bind, wops>>

\* The browser answers the attach command: a session id, an error, or a
\* result that does not decode
RemoteAttachReply(info) ==
  /\ [id |-> AttachId, script |-> NoScript, fwd |-> FALSE] \in wire
  /\ wire' = wire \ {[id |-> AttachId, script |-> NoScript, fwd |-> FALSE]}
  /\ Emit([Frame("", "", AttachId, "", "", NoRep) EXCEPT !.info = info])
  /\ UNCHANGED <<id, allocated, pending, bindings, mutex, ws, pc, sid, done,
                 dpc, dframe, dout, proc, waited, kills, kcall, log, noise, sends, req,
                 payload, page, ctor,
                 drops, nav, ui, bind, wops>>

(* ---------------------------- navigation ------------------------------ *)
\* The navigation histories the browser can be in: a current index inside
\* a non-empty list of entries
Histories == {h \in [index : 0..(MaxEntries - 1), len : 1..MaxEntries] : h.index < h.len}

\* A call of Load, Back or Forward: the operation, where it stands, the
\* history getNavigationHistory returned (seen: "none", "ok" or "bad" when
\* the result does not decode), the index asked for, the index the browser
\* went to, whether line 421 printed the history, and the result returned
NavCall(op, delta, stage) ==
  [op |-> op, delta |-> delta, stage |-> stage, seen |-> "none", from |-> -1, len |-> 0,
   target |-> -1, to |-> -1, printed |-> FALSE, res |-> "pending"]

\* The reply to a command that is not an evaluation: the result has no type
RawReply(rid) == [err |-> "none", exc |-> FALSE, type |-> "", subtype |-> "", tag |-> rid]

\* The request of the call in progress, as the browser has it
NavRequest(r) ==
  /\ r \in wire
  /\ navs # <<>>
  /\ navs[Len(navs)].res = "pending"
  /\ r.id = sid[Nav]

\* Load, lines 372-375: the call of Send for Page.navigate
Load ==
  /\ pc[Nav] = "off"
  /\ Len(navs) < MaxNavs
  /\ navs' = Append(navs, NavCall("load", 0, "load"))
  /\ pc' = [pc EXCEPT ![Nav] = "idle"]
  /\ UNCHANGED <<id, allocated, pending, bindings, mutex, ws, inbox, wire, sid, done,
                 dpc, dframe, dout, proc, waited, kills, kcall, log, noise,
                 sends, req, payload, page, ctor,
                 drops, hist, ui, bind, wops>>

\* goDelta, line 431, called by operation op: getNavigationHistory's call of
\* Send, line 417
GoDelta(op, delta) ==
  /\ pc[Nav] = "off"
  /\ Len(navs) < MaxNavs
  /\ navs' = Append(navs, NavCall(op, delta, "hist"))
  /\ pc' = [pc EXCEPT ![Nav] = "idle"]
  /\ UNCHANGED <<id, allocated, pending, bindings, mutex, ws, inbox, wire, sid, done,
                 dpc, dframe, dout, proc, waited, kills, kcall, log, noise,
                 sends, req, payload, page, ctor,
                 drops, hist, ui, bind, wops>>

\* Back, lines 446-448
Back == GoDelta("back", BackDelta)

\* Forward, lines 451-453
Forward == GoDelta("forward", ForwardDelta)

\* The browser answers Page.getNavigationHistory with its history, or with
\* a result that does not decode into navigationHistory
RemoteHistory(r, decodes) ==
  /\ NavRequest(r)
  /\ navs[Len(navs)].stage = "hist"
  /\ Emit(Frame("Target.receivedMessageFromTarget", Session, r.id, "", "", RawReply(r.id)))
  /\ wire' = wire \ {r}
  /\ navs' = [navs EXCEPT ![Len(navs)] =
                IF decodes THEN [@ EXCEPT !.seen = "ok", !.from = hist.index, !.len = hist.len]
                ELSE [@ EXCEPT !.seen = "bad"]]
  /\ UNCHANGED <<id, allocated, pending, bindings, mutex, ws, pc, sid, done,
                 dpc, dframe, dout, proc, waited, kills, kcall, log, noise,
                 sends, req, payload, page, ctor,
                 drops, hist, ui, bind, wops>>

\* The browser navigates: Page.navigate adds an entry after the current one
\* and discards the entries after it, Page.navigateToHistoryEntry goes to
\* the entry asked for
RemoteNavigate(r) ==
  /\ NavRequest(r)
  /\ LET c == navs[Len(navs)] IN
       /\ c.stage \in {"load", "nav"}
       /\ c.stage = "load" => hist.index + 2 <= MaxEntries
       /\ c.stage = "nav" => c.target < hist.len
       /\ hist' = IF c.stage = "load" THEN [index |-> hist.index + 1, len |-> hist.index + 2]
                  ELSE [hist EXCEPT !.index = c.target]
       /\ navs' = [navs EXCEPT ![Len(navs)] = [@ EXCEPT !.to = hist'.index]]
  /\ Emit(Frame("Target.receivedMessageFromTarget", Session, r.id, "", "", RawReply(r.id)))
  /\ wire' = wire \ {r}
  /\ UNCHANGED <<id, allocated, pending, bindings, mutex, ws, pc, sid, done,
                 dpc, dframe, dout, proc, waited, kills, kcall, log, noise,
                 sends, req, payload, page, ctor,
                 drops, ui, bind, wops>>

\* Send has returned to Load (line 374), to getNavigationHistory (lines
\* 418-427) or to goDelta (lines 431-443)
NavSent ==
  /\ pc[Nav] = "sent"
  /\ LET c == navs[Len(navs)]
         d == CHOOSE x \in done : x.task = Nav /\ x.id = sid[Nav]
         n == c.from + c.delta
         c2 == IF d.out.kind = "err" THEN [c EXCEPT !.res = "senderr"]
               ELSE IF c.stage \in {"load", "nav"} THEN [c EXCEPT !.res = "ok"]
               ELSE IF c.seen # "ok" THEN [c EXCEPT !.printed = TRUE, !.res = "decodeerr"]
               ELSE IF n < 0 \/ n >= c.len THEN [c EXCEPT !.printed = TRUE, !.res = "invalid"]
               ELSE [c EXCEPT !.printed = TRUE, !.stage = "nav", !.target = n]
     IN  /\ navs' = [navs EXCEPT ![Len(navs)] = c2]
         /\ pc' = [pc EXCEPT ![Nav] = IF c2.res = "pending" THEN "idle" ELSE "off"]
  /\ UNCHANGED <<id, allocated, pending, bindings, mutex, ws, inbox, wire, sid, done,
                 dpc, dframe, dout, proc, waited, kills, kcall, log, noise,
                 sends, req, payload, page, ctor,
                 drops, hist, ui, bind, wops>>

(* ------------------------------ UI.Close ------------------------------ *)
\* ui.go New, line 91: close(done), after chrome.Cmd.Wait() has returned
DoneClose ==
  /\ waited
  /\ ~udone
  /\ udone' = TRUE
  /\ UNCHANGED <<id, allocated, pending, bindings, mutex, ws, inbox, wire, pc, sid, done,
                 dpc, dframe, dout, proc, waited, kills, kcall, log, noise, sends, req, payload,
                 page, ctor, drops, nav, usig, ucalls, upc, bind, wops>>

\* UI.Close, lines 151-152: u.Chrome.Kill(), its error ignored
UICloseKill ==
  /\ upc \in {"idle", "nil", "err"}
  /\ UserKills < MaxKills
  /\ KillClose(User)
  /\ upc' = IF KillReturned(User) THEN "wait" ELSE "kill"
  /\ UNCHANGED <<id, allocated, pending, bindings, mutex, inbox, wire, pc, sid, done,
                 dpc, dframe, dout, waited, log, noise, sends, req, payload,
                 page, ctor, drops, nav, usig, ucalls, udone, bind, wops>>

\* UI.Close, lines 153-159: <-u.done, then the temporary directory is
\* removed and Close returns nil, or the error of os.RemoveAll
UICloseWait(removed) ==
  /\ upc = "wait"
  /\ udone
  /\ upc' = IF removed THEN "nil" ELSE "err"
  /\ UNCHANGED <<id, allocated, pending, bindings, mutex, ws, inbox, wire, pc, sid, done,
                 dpc, dframe, dout, proc, waited, kills, kcall, log, noise, sends, req, payload,
                 page, ctor, drops, nav, usig, ucalls, udone, bind, wops>>

(* ------------------------------ UI.Bind ------------------------------- *)
\* The parameter types of a host function
ParamTypes == {"int", "string"}

\* The JSON values the page passes: an integer, a number with a fraction,
\* a string, null
ArgKinds == {"num", "frac", "str", "null"}

\* The results of a host function UI.Bind accepts, lines 168-171: none, a
\* value, an error, a value and an error, two values
OutShapes == {"none", "value", "error", "value+error", "value+value"}

\* The results the switch of lines 187-211 passes on
KnownShapes == {"none", "value", "error", "value+error"}

SeqsUpTo(S, n) == UNION {[1..k -> S] : k \in 0..n}

\* The host functions UI.Bind accepts
Signatures == [ins : SeqsUpTo(ParamTypes, MaxParams), outs : OutShapes]

\* json.Unmarshal(raw[i], arg.Interface()), line 180: null leaves the zero
\* value and is no error
Decodes(kind, type) ==
  \/ kind = "null"
  \/ kind = "num" /\ type = "int"
  \/ kind = "str" /\ type = "string"

\* The mutant: the call goes on when the page passes too few arguments.
ArityAtMost(sig, raw) == Len(raw) <= Len(sig.ins)

\* UI.Bind, line 174: len(raw) != v.Type().NumIn()
ArityMatches(sig, raw) == Len(raw) = Len(sig.ins)

\* The value an argument decodes to
Decoded(kind) == IF kind = "null" THEN "zero" ELSE kind

\* The handler UI.Bind registers, lines 173-212, called with the raw
\* arguments; fails tells whether the host function returns a non-nil error
UIHandler(sig, raw, fails) ==
  LET bad == {i \in DOMAIN raw : i <= Len(sig.ins) /\ ~Decodes(raw[i], sig.ins[i])}
      args == [i \in DOMAIN raw |-> Decoded(raw[i])]
      v == <<"f", args>>
  IN  IF ~ArityMatches(sig, raw)
        THEN [called |-> FALSE, failed |-> TRUE, msg |-> "function arguments mismatch", value |-> <<>>]
      ELSE IF bad # {}
        THEN [called |-> FALSE, failed |-> TRUE, msg |-> "json: cannot unmarshal", value |-> <<>>]
      ELSE IF sig.outs = "none"
        THEN [called |-> TRUE, failed |-> FALSE, msg |-> "", value |-> <<>>]
      ELSE IF sig.outs = "value"
        THEN [called |-> TRUE, failed |-> FALSE, msg |-> "", value |-> v]
      ELSE IF sig.outs = "error"
        THEN [called |-> TRUE, failed |-> fails, msg |-> IF fails THEN "E" ELSE "", value |-> <<>>]
      ELSE IF sig.outs = "value+error"
        THEN [called |-> TRUE, failed |-> fails, msg |-> IF fails THEN "E" ELSE "", value |-> v]
      ELSE [called |-> TRUE, failed |-> TRUE, msg |-> "second return value must be an error",
            value |-> <<>>]

\* The page calls the function bound through UI.Bind
UICall(raw, fails) ==
  /\ Len(ucalls) < MaxUICalls
  /\ ucalls' = Append(ucalls, [raw |-> raw, fails |-> fails, out |-> UIHandler(usig, raw, fails)])
  /\ UNCHANGED <<id, allocated, pending, bindings, mutex, ws, inbox, wire, pc, sid, done,
                 dpc, dframe, dout, proc, waited, kills, kcall, log, noise, sends, req, payload,
                 page, ctor, drops, nav, usig, upc, udone, bind, wops>>

(* ------------------------------- Spec --------------------------------- *)
Next ==
  \/ \E t \in Callers, ok \in BOOLEAN : SendAlloc(t, ok)
  \/ \E t \in Callers : SendLock(t)
  \/ \E t \in Callers : SendRegister(t)
  \/ \E t \in Callers, res \in {"ok", "err"} : SendWrite(t, res)
  \/ DispRecv
  \/ DispKill
  \/ DispLockPending
  \/ DispTakePending
  \/ \E t \in Callers : DispDeliver(t)
  \/ \E r \in wire, shape \in BasicShapes : RemoteReply(r, shape)
  \/ \E f \in NoiseFrames : RemoteNoise(f)
  \/ RemoteClose
  \/ ProcExit
  \/ CmdWait
  \/ Kill
  \/ KillAdvance(User)
  \/ KillAdvance(Disp)

Spec == Init /\ [][Next]_vars

\* Every combination of the reply fields readLoop looks at: the error field
\* absent, present without a message or with one; the exception value; the
\* type and the subtype of the result
AllShapes ==
  [err : {"none", "empty", "msg"}, exc : BOOLEAN, type : {"", "object", "number"},
   subtype : {"", "error"}, tag : {0}]

\* One caller evaluates, the browser answers with a reply of any shape
NextDecode ==
  \/ SendAlloc(<<"c", 1>>, TRUE)
  \/ SendLock(<<"c", 1>>)
  \/ SendRegister(<<"c", 1>>)
  \/ \E res \in {"ok", "err"} : SendWrite(<<"c", 1>>, res)
  \/ DispRecv
  \/ DispLockPending
  \/ DispTakePending
  \/ DispDeliver(<<"c", 1>>)
  \/ \E r \in wire, shape \in AllShapes : RemoteReply(r, shape)

\* Callers in Send and the browser's replies, on a connection of any age
NextWrap ==
  \/ \E t \in Callers : SendAlloc(t, TRUE)
  \/ \E t \in Callers : SendLock(t)
  \/ \E t \in Callers : SendRegister(t)
  \/ \E t \in Callers, res \in {"ok", "err"} : SendWrite(t, res)
  \/ DispRecv
  \/ DispLockPending
  \/ DispTakePending
  \/ \E t \in Callers : DispDeliver(t)
  \/ \E r \in wire : RemoteReply(r, CHOOSE x \in BasicShapes : x.type = "number")

SpecWrap == InitWrap /\ [][NextWrap]_vars

SpecDecode == Init /\ [][NextDecode]_vars

\* Construction, from the started process to the returned connection or
\* the returned error
NextCtor ==
  \/ \E ok \in BOOLEAN : CtorMatch(ok)
  \/ \E ok \in BOOLEAN : CtorDial(ok)
  \/ \E res \in {"ok", "err"} : CtorFindSend(res)
  \/ CtorFindRecv
  \/ \E res \in {"ok", "err"} : CtorAttachSend(res)
  \/ CtorAttachRecv
  \/ SendAlloc(Ctor, TRUE)
  \/ SendLock(Ctor)
  \/ SendRegister(Ctor)
  \/ \E res \in {"ok", "err"} : SendWrite(Ctor, res)
  \/ DispRecv
  \/ DispLockPending
  \/ DispTakePending
  \/ DispDeliver(Ctor)
  \/ \E ok \in BOOLEAN : CtorSent(ok)
  \/ CtorWait
  \/ \E info \in {"page", "other", "malformed"} : RemoteTargetCreated(info)
  \/ \E info \in {"session", "error", "malformed"} : RemoteAttachReply(info)
  \/ \E r \in wire, shape \in BasicShapes : RemoteReply(r, shape)
  \/ RemoteClose
  \/ ProcExit
  \/ KillAdvance(Ctor)

SpecCtor == InitCtor /\ [][NextCtor]_vars

\* The tasks that call Send beside the Dispatcher: the binding invocation
\* tasks and one caller
BridgeTasks == BTasks \cup {<<"c", 1>>}

\* The binding bridge: page-side calls, handlers that return in any order
\* or never, and a caller of Send beside them
NextBridge ==
  \/ \E t \in BridgeTasks : SendAlloc(t, TRUE)
  \/ \E t \in BridgeTasks : SendLock(t)
  \/ \E t \in BridgeTasks : SendRegister(t)
  \/ \E t \in BridgeTasks, res \in {"ok", "err"} : SendWrite(t, res)
  \/ DispRecv
  \/ DispLockPending
  \/ DispTakePending
  \/ \E t \in BridgeTasks : DispDeliver(t)
  \/ DispLockBinding
  \/ DispLookupBinding
  \/ \E a \in ArgSets : PageCall(a)
  \/ \E b \in BTasks : HandlerReturn(b)
  \/ \E r \in wire : PageEval(r)
  \/ \E r \in wire : RemoteReply(r, CHOOSE x \in BasicShapes : x.type = "number")

SpecBridge == InitBridge /\ [][NextBridge]_vars

\* Handlers that never return: page-side calls start handlers, nothing
\* ends them, and the callers run Send beside them
NextStall ==
  \/ \E t \in Callers : SendAlloc(t, TRUE)
  \/ \E t \in Callers : SendLock(t)
  \/ \E t \in Callers : SendRegister(t)
  \/ \E t \in Callers, res \in {"ok", "err"} : SendWrite(t, res)
  \/ DispRecv
  \/ DispLockPending
  \/ DispTakePending
  \/ \E t \in Callers : DispDeliver(t)
  \/ DispLockBinding
  \/ DispLookupBinding
  \/ PageCall("2,3")
  \/ \E r \in wire, shape \in BasicShapes : RemoteReply(r, shape)

\* The scheduler runs every task that can take a step and the browser
\* answers the requests it received
FairStall ==
  /\ WF_vars(DispRecv)
  /\ WF_vars(DispLockPending)
  /\ WF_vars(DispTakePending)
  /\ WF_vars(DispLockBinding)
  /\ WF_vars(DispLookupBinding)
  /\ \A t \in Callers :
       /\ WF_vars(DispDeliver(t))
       /\ WF_vars(SendLock(t))
       /\ WF_vars(SendRegister(t))
       /\ WF_vars(SendWrite(t, "ok"))
  /\ WF_vars(\E r \in wire, shape \in BasicShapes : RemoteReply(r, shape))

SpecStall == InitBridge /\ [][NextStall]_vars /\ FairStall

\* A connection whose browser has a navigation history of any shape
InitNav == InitWith(NumDomains, {}, FALSE) /\ hist \in Histories /\ usig = NoSig

\* Navigation calls made one after another by one task, each through Send
\* and the Dispatcher; the browser answers or reports an error, and either
\* side may close the connection at any moment
NextNav ==
  \/ Load
  \/ Back
  \/ Forward
  \/ NavSent
  \/ SendAlloc(Nav, TRUE)
  \/ SendLock(Nav)
  \/ SendRegister(Nav)
  \/ \E res \in {"ok", "err"} : SendWrite(Nav, res)
  \/ DispRecv
  \/ DispLockPending
  \/ DispTakePending
  \/ DispDeliver(Nav)
  \/ \E r \in wire, decodes \in BOOLEAN : RemoteHistory(r, decodes)
  \/ \E r \in wire : RemoteNavigate(r)
  \/ \E r \in wire, shape \in BasicShapes : Decode(shape).kind = "err" /\ RemoteReply(r, shape)
  \/ RemoteClose
  \/ Kill
  \/ KillAdvance(User)

SpecNav == InitNav /\ [][NextNav]_vars

\* A connection on which UI.Bind has registered a host function
InitUIBind ==
  InitWith(NumDomains + NumBindSends, {"add"}, TRUE) /\ hist = OnePage /\ usig \in Signatures

NextUIBind ==
  \E raw \in SeqsUpTo(ArgKinds, MaxArgs), fails \in BOOLEAN : UICall(raw, fails)

SpecUIBind == InitUIBind /\ [][NextUIBind]_vars

\* The user closes the UI, once or twice or after Kill, while the browser
\* may exit, close the Transport or destroy the target by itself
NextClose ==
  \/ UICloseKill
  \/ \E removed \in BOOLEAN : UICloseWait(removed)
  \/ Kill
  \/ CmdWait
  \/ DoneClose
  \/ DispRecv
  \/ DispKill
  \/ DispLockPending
  \/ DispTakePending
  \/ \E f \in NoiseFrames : RemoteNoise(f)
  \/ RemoteClose
  \/ ProcExit
  \/ KillAdvance(User)
  \/ KillAdvance(Disp)

\* The scheduler runs the caller of Close, the task that waits for the
\* process and the Dispatcher; the browser is not bound to do anything
FairClose ==
  /\ WF_vars(\E removed \in BOOLEAN : UICloseWait(removed))
  /\ WF_vars(CmdWait)
  /\ WF_vars(DoneClose)
  /\ WF_vars(DispRecv)
  /\ WF_vars(DispKill)
  /\ WF_vars(KillAdvance(User))
  /\ WF_vars(KillAdvance(Disp))
  /\ WF_vars(DispLockPending)
  /\ WF_vars(DispTakePending)

SpecClose == Init /\ [][NextClose]_vars /\ FairClose

\* Forwarded messages of session s of every kind readLoop tells apart: a
\* reply, a console event, an exception event, a binding call; with id 0
\* and with the id of the first request made after Bind
ProbeFrames(s) ==
  { [Frame("Target.receivedMessageFromTarget", s, i, m, "",
           [err |-> "none", exc |-> FALSE, type |-> "number", subtype |-> "", tag |-> -1])
       EXCEPT !.bname = "add",
              !.call = [name |-> "add", seq |-> 1, args |-> "2,3", at |-> 0]] :
      i \in {0, FirstId + NumDomains + NumBindSends + 1},
      m \in {"", "Runtime.consoleAPICalled", "Runtime.exceptionThrown", "Runtime.bindingCalled"} }

\* Traffic of a stale session beside the traffic of the active one, on a
\* connection with a registered binding and callers in Send
NextStale ==
  \/ \E t \in Callers : SendAlloc(t, TRUE)
  \/ \E t \in Callers : SendLock(t)
  \/ \E t \in Callers : SendRegister(t)
  \/ \E t \in Callers, res \in {"ok", "err"} : SendWrite(t, res)
  \/ DispRecv
  \/ DispLockPending
  \/ DispTakePending
  \/ \E t \in Callers : DispDeliver(t)
  \/ DispLockBinding
  \/ DispLookupBinding
  \/ \E s \in {Session, StaleSession} : \E f \in ProbeFrames(s) : RemoteNoise(f)
  \/ \E r \in wire, shape \in BasicShapes : RemoteReply(r, shape)

SpecStale == InitBridge /\ [][NextStale]_vars

\* Teardown beside the binding bridge: page-side calls start invocation
\* tasks, and the user closes the connection at any moment
NextLeak ==
  \/ PageCall("2,3")
  \/ DispRecv
  \/ DispLockPending
  \/ DispTakePending
  \/ \E b \in BTasks : DispDeliver(b)
  \/ DispLockBinding
  \/ DispLookupBinding
  \/ \E b \in BTasks : HandlerReturn(b)
  \/ \E b \in BTasks : SendAlloc(b, TRUE)
  \/ \E b \in BTasks : SendLock(b)
  \/ \E b \in BTasks : SendRegister(b)
  \/ \E b \in BTasks, res \in {"ok", "err"} : SendWrite(b, res)
  \/ \E r \in wire : PageEval(r)
  \/ Kill
  \/ KillAdvance(User)

\* The scheduler runs every task that can take a step, handlers return,
\* and the page evaluates the scripts it receives
FairLeak ==
  /\ WF_vars(DispRecv)
  /\ WF_vars(DispLockPending)
  /\ WF_vars(DispTakePending)
  /\ WF_vars(DispLockBinding)
  /\ WF_vars(DispLookupBinding)
  /\ \A b \in BTasks :
       /\ WF_vars(DispDeliver(b))
       /\ WF_vars(HandlerReturn(b))
       /\ WF_vars(SendAlloc(b, TRUE))
       /\ WF_vars(SendLock(b))
       /\ WF_vars(SendRegister(b))
       /\ WF_vars(\E res \in {"ok", "err"} : SendWrite(b, res))
  /\ WF_vars(\E r \in wire : PageEval(r))

SpecLeak == InitBridge /\ [][NextLeak]_vars /\ FairLeak

(* ------------------------------ claims -------------------------------- *)
\* The returns of Send that carry the outcome of a reply
Replied == {r \in done : r.out.field \notin {"write", "marshal"}}

\* C1: every caller returns the outcome of the reply whose id equals the id
\* the caller allocated, and never the outcome of the reply that answers
\* another caller's request.
C1_Correlated ==
  \A r \in Replied : r.from = r.id /\ (r.out.tag # -1 => r.out.tag = r.id)

\* C1 witness: the reply to a later request was delivered while the caller
\* of an earlier request still waits for its own.
C1_Witness ==
  \E r \in Replied : \E t \in Callers :
    /\ t # r.task /\ pc[t] = "recv" /\ sid[t] < r.id /\ r.out.tag = r.id

\* C2: a Send whose request was written and whose reply was delivered has
\* returned once, and the PendingRequest table holds no entry for its id.
C2_ReturnsOnceNoLeak ==
  \A r \in Replied :
    /\ r.id \notin pending
    /\ Cardinality({q \in done : q.id = r.id}) = 1

\* C2 witness: a caller returned a value from the reply to its request
\* while another request is still in the table.
C2_Witness ==
  \E r \in Replied : r.out.kind = "val" /\ r.out.tag = r.id /\ pending # {}

C7_ClaimedPrecedence ==
  \A r \in Replied :
    IF r.rep.err # "none" THEN r.out.kind = "err" /\ r.out.field = "error.message"
    ELSE IF r.rep.type = "object" /\ r.rep.subtype = "error"
      THEN r.out.kind = "err" /\ r.out.field = "description"
    ELSE IF r.rep.exc THEN r.out.kind = "err" /\ r.out.field = "exception.value"
    ELSE IF r.rep.type # "" THEN r.out.kind = "val" /\ r.out.field = "value"
    ELSE r.out.kind = "val" /\ r.out.field = "raw"

\* C7 amended: the first matching case wins, in the order error field with
\* a non-empty message, exception value, result object of subtype "error",
\* typed result, raw.
C7_Precedence ==
  \A r \in Replied :
    IF r.rep.err = "msg" THEN r.out.kind = "err" /\ r.out.field = "error.message"
    ELSE IF r.rep.exc THEN r.out.kind = "err" /\ r.out.field = "exception.value"
    ELSE IF r.rep.type = "object" /\ r.rep.subtype = "error"
      THEN r.out.kind = "err" /\ r.out.field = "description"
    ELSE IF r.rep.type # "" THEN r.out.kind = "val" /\ r.out.field = "value"
    ELSE r.out.kind = "val" /\ r.out.field = "raw"

\* C7 witness: a waiter got the outcome of a reply that is a result object
\* of subtype "error" and carries an exception value.
C7_Witness ==
  \E r \in Replied :
    r.rep.err = "none" /\ r.rep.exc /\ r.rep.type = "object" /\ r.rep.subtype = "error"

\* C8: a call of Kill made when an earlier Kill has closed the Transport
\* returns no error.
C8_KillIdempotent ==
  \A k \in DOMAIN kills : kills[k].wsBefore = "closed" => ~kills[k].err

\* C9: whatever the state of the Transport, a Kill that returns while the
\* process is still running has issued the force-kill.
C9_KillAlwaysKills ==
  [][(Len(kills') = Len(kills) + 1 /\ proc = "running") =>
       kills'[Len(kills')].signalled]_vars

\* The settle events of the page, as a set of positions
Settles == DOMAIN settled

\* C4: the settle-pair of sequence number s is settled at most once, by the
\* script of the invocation started for the call that allocated s (run on
\* that call's arguments); once the task that evaluates the script has its
\* reply the pair is settled, and both table entries of s are deleted.
C4_SettledByOwnCall ==
  /\ \A i \in Settles :
       /\ settled[i].origin = settled[i].seq
       /\ settled[i].args = calls[settled[i].seq]
       /\ settled[i].seq \notin callbacks
       /\ settled[i].seq \notin errors
  /\ \A i, j \in Settles : settled[i].seq = settled[j].seq => i = j
  /\ \A b \in BTasks :
       pc[b] = "end" => \E i \in Settles : settled[i].seq = payload[b].seq

\* C4 witness: two calls with different arguments were settled in the
\* reverse of their call order, and both tasks have returned.
C4_Witness ==
  /\ Len(settled) = 2
  /\ settled[1].seq = 2 /\ settled[2].seq = 1
  /\ calls[1] # calls[2]
  /\ \A b \in BTasks : pc[b] = "end"

\* C5: when the handler returned an error or its result cannot be
\* serialized, the script calls the reject function with the error message
\* and does not call the resolve function.
C5_ErrorsReject ==
  \A i \in Settles :
    LET h == Handler(settled[i].args)
        m == Marshal(h.r)
    IN  (h.failed \/ ~m.ok) =>
          /\ settled[i].how = "reject"
          /\ settled[i].text = JsString(IF h.failed THEN h.msg ELSE m.msg)

\* C6: whatever handlers do not return, every frame in the inbox is read
\* and a caller that waits for its reply gets it.
C6_DispatcherNotStalled ==
  /\ \A c \in Callers : (pc[c] = "recv") ~> (pc[c] = "idle")
  /\ (inbox # <<>>) ~> (inbox = <<>>)

\* C6 witness: every handler is running, and a caller has the reply to a
\* request whose id was allocated after the handlers were started.
C6_Witness ==
  \E r \in Replied :
    /\ r.task \in Callers
    /\ \A b \in BTasks : pc[b] = "handler" /\ r.id > FirstId + payload[b].at

\* C10: once the constructor has taken a failure path after the process was
\* started (it called Kill, and returned the error or waits for the process
\* before it returns), the process is not running any more.
C10_FailureKillsProcess ==
  cpc \in {"failed", "wait"} => proc # "running"

\* C11: once the connection is closed while no invocation of the binding
\* has completed, every binding invocation task eventually terminates.
C11_NoTaskLeak ==
  (ws = "closed" /\ \A b \in BTasks : pc[b] # "end")
    ~> (\A b \in BTasks : pc[b] \in {"off", "end"})

\* C12: a Back that navigates goes to the entry before the current one,
\* a Forward that navigates goes to the entry after it.
C12_BackForwardDistinct ==
  \A i \in DOMAIN navs :
    navs[i].res = "ok" =>
      /\ navs[i].op = "back" => navs[i].to = navs[i].from - 1
      /\ navs[i].op = "forward" => navs[i].to = navs[i].from + 1

\* The call passed a number of arguments different from the parameter
\* count, or an argument that does not decode into its parameter's type
Mismatched(c) ==
  \/ Len(c.raw) # Len(usig.ins)
  \/ \E i \in DOMAIN c.raw : ~Decodes(c.raw[i], usig.ins[i])

C14_CloseReturns ==
  /\ (upc = "kill" \/ upc = "wait") ~> (upc \in {"nil", "err"})
  /\ [][(upc = "wait" /\ upc' # "wait") => udone]_vars

\* C15: whenever the Dispatcher has been started, the constructor is past
\* both negotiation exchanges, so that no other task reads the Transport.
C15_SingleReader ==
  dpc # "off" => cpc \notin {"match", "dial", "findSend", "findRecv", "attachSend", "attachRecv"}

\* C15 witness: the Dispatcher has read a frame while the constructor
\* enables the domains.
C15_Witness ==
  dpc = "takePending" /\ cpc = "enable" /\ pc[Ctor] = "recv"

\* C17: every id in the PendingRequest table has exactly one Send call
\* outstanding for it: one that has registered the id and has not returned.
C17_PendingHasWaiter ==
  \A i \in pending :
    Cardinality({t \in Tasks : sid[t] = i /\ pc[t] \in {"write", "recv"}}) = 1

\* C18: a Send that waits for its reply has its waiter in the table until
\* the Dispatcher hands it the outcome, and the reply to a written request
\* is not dropped for want of a waiter (unless a frame that answers no
\* request carried the same id and was delivered in its place).
C18_ReplyFindsEntry ==
  /\ \A t \in Tasks :
       pc[t] = "recv" => sid[t] \in pending \/ (dpc = "deliver" /\ dout.chan = sid[t])
  /\ \A d \in drops :
       (d.why = "nowaiter" /\ d.tag = d.id /\ \E k \in DOMAIN allocated : allocated[k] = d.id) =>
          \E r \in done : r.id = d.id /\ r.out.tag = -1

\* C18 witness: the reply to a request was delivered to its caller, the
\* Dispatcher having dropped a frame that answers no request, while the
\* other caller still waits with its waiter in the table.
C18_Witness ==
  \E r \in Replied : \E t \in Callers :
    /\ r.out.tag = r.id
    /\ pc[t] = "recv" /\ sid[t] \in pending
    /\ \E d \in drops : d.why = "nowaiter"

\* C19: the step by which the Dispatcher handles a session-scoped reply
\* whose id has no entry in the table changes neither the table nor the
\* binding registry, completes no Send, and takes the Dispatcher back to
\* reading the next frame.
C19_UnsolicitedDropped ==
  [][(dpc = "takePending" /\ dframe.id \notin pending /\ dpc' # dpc) =>
       (pending' = pending /\ bindings' = bindings /\ done' = done /\ pc' = pc /\ dpc' = "read")]_vars

\* C19 witness: the Dispatcher has dropped a second frame with the id of a
\* request already answered, while another request is in the table.
C19_Witness ==
  /\ dpc = "read"
  /\ pending # {}
  /\ \E d \in drops : \E r \in Replied :
       d.why = "nowaiter" /\ d.sess = Session /\ d.id = r.id

\* C20: the step by which the Dispatcher reads a forwarded message of
\* another session removes no table entry, completes no Send, starts no
\* binding invocation, logs nothing and leaves the Dispatcher reading.
C20_StaleSessionDropped ==
  [][(/\ dpc = "read"
      /\ inbox # <<>>
      /\ inbox' = Tail(inbox)
      /\ Head(inbox).top = "Target.receivedMessageFromTarget"
      /\ Head(inbox).sess # Session) =>
       (/\ pending' = pending /\ done' = done /\ pc' = pc /\ payload' = payload
        /\ log' = log /\ dpc' = "read" /\ dframe' = dframe)]_vars

\* C20 witness: a message of another session was dropped whose inner id
\* is the id of a request that is still pending.
C20_Witness ==
  \E d \in drops : \E t \in Callers :
    /\ d.why = "session"
    /\ d.id = sid[t] /\ pc[t] = "recv" /\ d.id \in pending
    /\ dpc = "read"

\* C21: when the Dispatcher reads a target-destroyed event that names the
\* active target, the next thing it does is call Kill, and when Kill has
\* returned it terminates; from the moment it has read the event it reads no
\* further frame. When the event names any other target the Dispatcher changes
\* nothing and goes on reading.
C21_TargetDestroyed ==
  /\ [][(dpc = "read" /\ inbox # <<>> /\ inbox' = Tail(inbox)
          /\ Head(inbox).top = "Target.targetDestroyed") =>
         /\ dpc' = IF Head(inbox).target = Target THEN "kill" ELSE "read"
         /\ UNCHANGED <<pending, bindings, done, pc, kills, kcall, ws, proc, log, dframe>>]_vars
  /\ [][(dpc = "kill" /\ dpc' # "kill") =>
         /\ dpc' = "done"
         /\ Len(kills') = Len(kills) + 1
         /\ kills'[Len(kills')].by = Disp
         /\ ws' = "closed"]_vars
  /\ [][(dpc = "kill" \/ dpc = "done") =>
         /\ (dpc' = "kill" \/ dpc' = "done")
         /\ (inbox = <<>> \/ inbox' # Tail(inbox))]_vars

\* the Dispatcher has torn the connection down on the destruction of the
\* active target and has stopped with a frame still unread
C21_Witness ==
  /\ dpc = "done"
  /\ \E i \in DOMAIN kills : kills[i].by = Disp
  /\ inbox # <<>>

\* The frames that must not stop the Dispatcher: an event of a method readLoop
\* does not know, a reply of a stale session, a forwarded message whose
\* parameters do not decode (the session id stays empty), a forwarded message
\* whose inner message does not decode (id 0 and no method), a binding call
\* for a name that is not registered and one for a registered name, a frame
\* the envelope decoder rejects, and the destruction of either target
OddFrames ==
  { Frame("Target.receivedMessageFromTarget", Session, 0, "Page.frameNavigated", "", NoRep),
    Frame("Target.receivedMessageFromTarget", StaleSession, FirstId + NumDomains + NumBindSends + 1,
          "", "", [err |-> "none", exc |-> FALSE, type |-> "number", subtype |-> "", tag |-> -1]),
    Frame("Target.receivedMessageFromTarget", "", 0, "", "", NoRep),
    Frame("Target.receivedMessageFromTarget", Session, 0, "", "", NoRep),
    [Frame("", "", 0, "", "", NoRep) EXCEPT !.info = "undecodable"] }
  \cup { [Frame("Target.receivedMessageFromTarget", Session, 0, "Runtime.bindingCalled", "", NoRep)
            EXCEPT !.bname = n,
                   !.call = [name |-> n, seq |-> 1, args |-> "2,3", at |-> 0]] :
           n \in {"add", "sub"} }
  \cup { Frame("Target.targetDestroyed", "", 0, "", tg, NoRep) : tg \in {Target, OtherTarget} }

\* Callers in Send, replies of every shape, and one odd frame at any moment,
\* on a connection with the binding "add" registered
NextFrames ==
  \/ \E t \in Callers : SendAlloc(t, TRUE)
  \/ \E t \in Callers : SendLock(t)
  \/ \E t \in Callers : SendRegister(t)
  \/ \E t \in Callers, res \in {"ok", "err"} : SendWrite(t, res)
  \/ DispRecv
  \/ DispKill
  \/ DispLockPending
  \/ DispTakePending
  \/ \E t \in Callers : DispDeliver(t)
  \/ DispLockBinding
  \/ DispLookupBinding
  \/ \E f \in OddFrames : RemoteNoise(f)
  \/ \E r \in wire, shape \in BasicShapes : RemoteReply(r, shape)
  \/ RemoteClose
  \/ KillAdvance(Disp)

SpecFrames == InitBridge /\ [][NextFrames]_vars

\* C22: the Dispatcher stops only when the read from the Transport fails
\* because the Transport is gone, or when the frame it reads announces the
\* destruction of the active target; no other frame, and in particular no
\* frame that fails to decode, stops it.
C22_StopsOnlyWhenGone ==
  /\ [][(dpc # "done" /\ dpc' = "done") => (ReceiveFails \/ dpc = "kill")]_vars
  /\ [][(dpc # "kill" /\ dpc' = "kill") =>
         /\ inbox # <<>>
         /\ Head(inbox).top = "Target.targetDestroyed"
         /\ Head(inbox).target = Target]_vars

\* C23: the Dispatcher is never left handing an outcome to a waiter whose Send
\* has already returned: whenever it stands at the hand-over, the task that
\* owns the channel is still inside that Send, so the hand-over completes and
\* the Dispatcher goes on to see the closed Transport and terminate.
C23_DeliverHasReceiver ==
  dpc = "deliver" =>
    \E t \in Tasks : sid[t] = dout.chan /\ pc[t] \in {"write", "recv"}

\* C24: Kill cancels nothing: every step of Kill (the close of the
\* Transport, the read of the process state, the signal), whoever calls it,
\* leaves the table of pending requests and the binding registry as they
\* were, delivers no outcome, and leaves every caller where it was, so a
\* caller blocked in Send before Kill is still blocked when Kill has returned.
C24_KillCancelsNothing ==
  [][(kcall' # kcall \/ Len(kills') = Len(kills) + 1) =>
       /\ pending' = pending
       /\ bindings' = bindings
       /\ done' = done
       /\ pc' = pc
       /\ dout' = dout]_vars

\* Kill has run and closed the Transport, the Dispatcher has stopped, and a
\* caller is still waiting in Send for the reply to a request that is still
\* in the table
C24_Witness ==
  /\ kills # <<>>
  /\ ws = "closed"
  /\ dpc = "done"
  /\ \E t \in Callers : pc[t] = "recv" /\ sid[t] \in pending

(* ------------------------------- Bind --------------------------------- *)
\* Bind(name, f): the name bound
BindName == "add"

\* Bind, lines 460, 481 and 485: the commands it sends, in order
BindOrder ==
  <<"Runtime.addBinding", "Page.addScriptToEvaluateOnNewDocument", "Runtime.evaluate">>

\* Bind, line 457: c.Lock()
BindLock ==
  /\ bpc = "off"
  /\ mutex = None
  /\ mutex' = Binder
  /\ bpc' = "locked"
  /\ UNCHANGED <<id, allocated, pending, bindings, ws, inbox, wire, pc, sid, done,
                 dpc, dframe, dout, proc, waited, kills, kcall, log, noise,
                 sends, req, payload, page, ctor,
                 drops, nav, ui, bcmds, wops>>

\* a variant of Bind that keeps the lock while it sends its commands
BindRegisterHolding ==
  /\ bpc = "locked"
  /\ bindings' = bindings \cup {BindName}
  /\ mutex' = Binder
  /\ bpc' = "step1"
  /\ UNCHANGED <<id, allocated, pending, ws, inbox, wire, pc, sid, done,
                 dpc, dframe, dout, proc, waited, kills, kcall, log, noise,
                 sends, req, payload, page, ctor,
                 drops, nav, ui, bcmds, wops>>

\* Bind, lines 458-459: c.bindings[name] = f; c.Unlock()
BindRegister ==
  /\ bpc = "locked"
  /\ bindings' = bindings \cup {BindName}
  /\ mutex' = None
  /\ bpc' = "step1"
  /\ UNCHANGED <<id, allocated, pending, ws, inbox, wire, pc, sid, done,
                 dpc, dframe, dout, proc, waited, kills, kcall, log, noise,
                 sends, req, payload, page, ctor,
                 drops, nav, ui, bcmds, wops>>

\* The position of Bind before its n-th command
BindStep(n) == IF n = 1 THEN "step1" ELSE IF n = 2 THEN "step2" ELSE "step3"

\* Bind, lines 460, 481, 485: the call of Send for the next command
BindCall ==
  /\ \E n \in DOMAIN BindOrder : bpc = BindStep(n) /\ bcmds' = Append(bcmds, BindOrder[n])
  /\ pc[Binder] = "off"
  /\ pc' = [pc EXCEPT ![Binder] = "idle"]
  /\ UNCHANGED <<id, allocated, pending, bindings, mutex, ws, inbox, wire, sid, done,
                 dpc, dframe, dout, proc, waited, kills, kcall, log, noise,
                 sends, req, payload, page, ctor,
                 drops, nav, ui, bpc, wops>>

\* a variant of Bind that ignores the error of a command
BindFailedNever(out) == FALSE

\* Bind, lines 460, 482, 486: err != nil
BindFailed(out) == out.kind = "err"

\* Bind, lines 460-487: Send has returned; an error ends Bind, otherwise it
\* goes on to the next command, and returns nil after the last
BindSent ==
  /\ pc[Binder] = "sent"
  /\ LET d == CHOOSE x \in done : x.task = Binder /\ x.id = sid[Binder] IN
       bpc' = IF BindFailed(d.out) THEN "err"
              ELSE IF bpc = "step1" THEN "step2"
              ELSE IF bpc = "step2" THEN "step3"
              ELSE "nil"
  /\ pc' = [pc EXCEPT ![Binder] = "off"]
  /\ UNCHANGED <<id, allocated, pending, bindings, mutex, ws, inbox, wire, sid, done,
                 dpc, dframe, dout, proc, waited, kills, kcall, log, noise,
                 sends, req, payload, page, ctor,
                 drops, nav, ui, bcmds, wops>>

\* The page evaluates the script of Bind, lines 463-480, on the current
\* document: the wrapper is installed, and the browser answers with a value
RemoteInstallShim(r) ==
  /\ r \in wire
  /\ bpc = "step3"
  /\ r.id = sid[Binder]
  /\ shim' = TRUE
  /\ Emit(Frame("Target.receivedMessageFromTarget", Session, r.id, "", "",
                [err |-> "none", exc |-> FALSE, type |-> "undefined", subtype |-> "", tag |-> r.id]))
  /\ wire' = wire \ {r}
  /\ UNCHANGED <<id, allocated, pending, bindings, mutex, ws, pc, sid, done,
                 dpc, dframe, dout, proc, waited, kills, kcall, log, noise,
                 sends, req, payload, lastSeq, callbacks, errors, calls, settled, ctor,
                 drops, nav, ui, bind, wops>>

\* The tasks in Send while Bind runs: Bind itself and one other caller
BindSenders == {Binder, <<"c", 1>>}

\* Bind on a new connection, beside a caller in Send; the browser answers
\* every command with a value or an error, and may close the connection at
\* any moment
NextBind ==
  \/ BindLock
  \/ BindRegister
  \/ BindCall
  \/ BindSent
  \/ \E t \in BindSenders : SendAlloc(t, TRUE)
  \/ \E t \in BindSenders : SendLock(t)
  \/ \E t \in BindSenders : SendRegister(t)
  \/ \E t \in BindSenders, res \in {"ok", "err"} : SendWrite(t, res)
  \/ DispRecv
  \/ DispLockPending
  \/ DispTakePending
  \/ \E t \in BindSenders : DispDeliver(t)
  \/ \E r \in wire, shape \in BasicShapes :
        /\ (bpc = "step3" /\ r.id = sid[Binder]) => Decode(shape).kind = "err"
        /\ RemoteReply(r, shape)
  \/ \E r \in wire : RemoteInstallShim(r)
  \/ RemoteClose

SpecBind == Init /\ [][NextBind]_vars

\* C25: Bind puts the handler into the registry first and then sends its
\* three commands in the order create-binding, run-on-every-new-document
\* script, evaluate-on-the-current-document; a command is sent only after
\* the reply to the one before has come back as a value; when a step fails
\* Bind returns that error and sends nothing more, and it returns nil only
\* after all three have succeeded and the page runs the shim.
C25_BindOrder ==
  /\ [](/\ Len(bcmds) <= Len(BindOrder)
        /\ \A i \in DOMAIN bcmds : bcmds[i] = BindOrder[i]
        /\ bcmds # <<>> => BindName \in bindings
        /\ bpc = "nil" => (bcmds = BindOrder /\ shim)
        /\ bpc = "err" =>
             \E d \in done : d.task = Binder /\ d.id = sid[Binder] /\ d.out.kind = "err")
  /\ [][/\ (bcmds' # bcmds /\ bcmds # <<>>) =>
             \E d \in done : /\ d.task = Binder
                              /\ d.id = sid[Binder]
                              /\ d.from = d.id
                              /\ d.out.kind = "val"
        /\ bpc \in {"err", "nil"} =>
             (bpc' = bpc /\ bcmds' = bcmds /\ sid'[Binder] = sid[Binder])]_vars

\* Bind has returned nil: the name is registered, the three commands were
\* sent in order and each was answered with a value
C25_Witness ==
  /\ bpc = "nil"
  /\ bcmds = BindOrder
  /\ BindName \in bindings
  /\ Cardinality({d \in done : d.task = Binder /\ d.out.kind = "val"}) = 3

(* ------------------------------ the lock ------------------------------ *)
\* The tasks that take the lock beside the Dispatcher: Bind and the binding
\* invocation tasks
LockTasks == BTasks \cup {Binder}

\* Every user of c.Mutex together: Bind registers the name and sends its
\* commands, the page then calls the binding, the Dispatcher starts the
\* invocation tasks and each of them sends its script
NextLock ==
  \/ BindLock
  \/ BindRegister
  \/ BindCall
  \/ BindSent
  \/ \E t \in LockTasks : SendAlloc(t, TRUE)
  \/ \E t \in LockTasks : SendLock(t)
  \/ \E t \in LockTasks : SendRegister(t)
  \/ \E t \in LockTasks, res \in {"ok", "err"} : SendWrite(t, res)
  \/ DispRecv
  \/ DispLockPending
  \/ DispTakePending
  \/ \E t \in LockTasks : DispDeliver(t)
  \/ DispLockBinding
  \/ DispLookupBinding
  \/ PageCall("2,3")
  \/ \E b \in BTasks : HandlerReturn(b)
  \/ \E r \in wire : PageEval(r)
  \/ \E r \in wire, shape \in BasicShapes :
        /\ (bpc = "step3" /\ r.id = sid[Binder]) => Decode(shape).kind = "err"
        /\ RemoteReply(r, shape)
  \/ \E r \in wire : RemoteInstallShim(r)

\* A task that can take or release the lock eventually does
FairLock ==
  /\ WF_vars(BindLock)
  /\ WF_vars(BindRegister)
  /\ WF_vars(DispLockPending)
  /\ WF_vars(DispTakePending)
  /\ WF_vars(DispLockBinding)
  /\ WF_vars(DispLookupBinding)
  /\ \A t \in LockTasks : WF_vars(SendLock(t)) /\ WF_vars(SendRegister(t))

SpecLock == Init /\ [][NextLock]_vars /\ FairLock

\* C26: the lock is held only between a Lock and the Unlock that follows the
\* table access: by a task in Send only at the insert, by the Dispatcher only
\* at the lookup of a waiter or of a handler, by Bind only at its insert;
\* so never by a task that is writing to the Transport, waiting for its
\* reply, handing an outcome to a waiter, reading a frame or running a
\* handler. And every task that waits for the lock gets it.
C26_LockDiscipline ==
  /\ [](/\ \A t \in Tasks : mutex = t => (IF t = Binder /\ pc[t] = "off" THEN bpc = "locked" ELSE pc[t] = "reg")
        /\ mutex = Disp => dpc \in {"takePending", "lookupBinding"}
        /\ mutex \in Tasks \cup {Disp, None})
  /\ \A t \in Tasks : (pc[t] = "lock") ~> (pc[t] = "reg")
  /\ (dpc = "lockPending") ~> (dpc = "takePending")
  /\ (dpc = "lockBinding") ~> (dpc = "lookupBinding")

\* The lock is contended: the Dispatcher holds it for the lookup of a
\* handler while an invocation task is inside Send waiting for it
C26_Witness ==
  /\ mutex = Disp
  /\ dpc = "lookupBinding"
  /\ \E b \in BTasks : pc[b] = "lock"

(* ------------------- replies to the wrapping command ------------------- *)
\* Send, line 360: the inner command travels inside a Target.sendMessageToTarget
\* command that carries the same id, and the browser answers that command
\* itself with a top-level frame of this id: an acknowledgement, or an error
AckFrame(rid, e) ==
  Frame("", "", rid, "", "",
        [err |-> e, exc |-> FALSE, type |-> "", subtype |-> "", tag |-> rid])

\* Forwarded messages that answer no request: of the active and of a stale
\* session, with id 0 and with the id of the first request
ForwardedNoise == {f \in NoiseFrames : f.top = "Target.receivedMessageFromTarget"}

\* Callers in Send; the browser answers the wrapping command with a
\* top-level frame and the inner command with a forwarded message
NextAck ==
  \/ \E t \in Callers : SendAlloc(t, TRUE)
  \/ \E t \in Callers : SendLock(t)
  \/ \E t \in Callers : SendRegister(t)
  \/ \E t \in Callers, res \in {"ok", "err"} : SendWrite(t, res)
  \/ DispRecv
  \/ DispLockPending
  \/ DispTakePending
  \/ \E t \in Callers : DispDeliver(t)
  \/ \E r \in wire, e \in {"none", "msg"} : RemoteNoise(AckFrame(r.id, e))
  \/ \E f \in ForwardedNoise : RemoteNoise(f)
  \/ \E r \in wire, shape \in BasicShapes : RemoteReply(r, shape)

SpecAck == Init /\ [][NextAck]_vars

\* C27: an entry leaves the table of pending requests, and a Send is handed
\* an outcome, only while the Dispatcher handles a forwarded message of the
\* active session whose inner id is the id of that request; the step by
\* which the Dispatcher reads a top-level frame, whatever its id, removes no
\* entry and completes no Send.
C27_OnlyForwardedCompletes ==
  [][/\ \A i \in pending \ pending' :
          /\ dframe.top = "Target.receivedMessageFromTarget"
          /\ dframe.sess = Session
          /\ dframe.id = i
     /\ \A d \in done' \ done :
          d.from # 0 => /\ dframe.top = "Target.receivedMessageFromTarget"
                        /\ dframe.sess = Session
                        /\ dframe.id = d.id
                        /\ d.from = d.id
     /\ (/\ dpc = "read"
         /\ inbox # <<>>
         /\ inbox' = Tail(inbox)
         /\ Head(inbox).top # "Target.receivedMessageFromTarget") =>
          (pending' = pending /\ done' = done /\ pc' = pc /\ dframe' = dframe)]_vars

\* The only request ever sent is still in the table and its caller still
\* waits, after the Dispatcher has read the top-level frame that carries
\* the request's id: the one frame the browser sent left no other trace
C27_Witness ==
  /\ Len(allocated) = NumDomains + 1
  /\ noise = 1
  /\ inbox = <<>>
  /\ dpc = "read"
  /\ drops = {}
  /\ log = 0
  /\ done = {}
  /\ \E t \in Callers : pc[t] = "recv" /\ sid[t] \in pending /\ \E r \in wire : r.id = sid[t]

\* C28: the step by which the Dispatcher reads a forwarded message of the
\* active session that is a console event or an uncaught-exception event
\* and carries no request id gives the message to the log sink, and it
\* removes no table entry, hands no outcome to any Send and starts no
\* binding invocation; the lookup the Dispatcher then makes with the id 0
\* finds no entry, changes nothing and takes the Dispatcher back to reading.
C28_EventsLogged ==
  /\ [][(/\ dpc = "read"
         /\ inbox # <<>>
         /\ inbox' = Tail(inbox)
         /\ Head(inbox).top = "Target.receivedMessageFromTarget"
         /\ Head(inbox).sess = Session
         /\ Head(inbox).id = 0
         /\ Head(inbox).method \in {"Runtime.consoleAPICalled", "Runtime.exceptionThrown"}) =>
          (/\ log' = log + 1
           /\ dpc' = "lockPending"
           /\ pending' = pending /\ bindings' = bindings /\ done' = done
           /\ pc' = pc /\ payload' = payload /\ dout' = dout)]_vars
  /\ [][(/\ dpc = "takePending"
         /\ dpc' # dpc
         /\ dframe.id = 0
         /\ dframe.method \in {"Runtime.consoleAPICalled", "Runtime.exceptionThrown"}) =>
          (/\ dpc' = "read"
           /\ pending' = pending /\ bindings' = bindings /\ done' = done
           /\ pc' = pc /\ payload' = payload /\ dout' = dout)]_vars

\* An event was logged and the lookup that follows found nothing, while a
\* caller waits in Send with its entry in the table; the Dispatcher is
\* reading again
C28_Witness ==
  /\ log = 1
  /\ dpc = "read"
  /\ \E d \in drops : d.why = "nowaiter" /\ d.id = 0
                        /\ d.method \in {"Runtime.consoleAPICalled", "Runtime.exceptionThrown"}
  /\ \E t \in Callers : pc[t] = "recv" /\ sid[t] \in pending

(* ----------------------------- the window ----------------------------- *)
\* The states SetBounds is called with: none given, normal, and another
WindowStates == {"", "normal", "maximized"}

\* A call of SetBounds or Bounds on the returned connection: the call of
\* Send with the method, the window id and the bounds it sends
WindowOp(method, bounds) ==
  /\ cpc = "done"
  /\ pc[Win] = "off"
  /\ Len(wops) < MaxWinOps
  /\ wops' = Append(wops, [method |-> method, windowId |-> window, bounds |-> bounds,
                           out |-> "pending"])
  /\ pc' = [pc EXCEPT ![Win] = "idle"]
  /\ UNCHANGED <<id, allocated, pending, bindings, mutex, ws, inbox, wire, sid, done,
                 dpc, dframe, dout, proc, waited, kills, kcall, log, noise,
                 sends, req, payload, page, ctor,
                 drops, nav, ui, bind>>

\* SetBounds, lines 496-507: an empty state means normal; the bounds are
\* sent whole in the normal state and as the state alone otherwise; the
\* window id is c.window as it stands
SetBounds(state) ==
  LET st == IF state = "" THEN "normal" ELSE state IN
    WindowOp("Browser.setWindowBounds", IF st # "normal" THEN "state" ELSE "whole")

\* Bounds, lines 509-520: the window id is c.window as it stands
Bounds == WindowOp("Browser.getWindowBounds", "none")

\* Send has returned to SetBounds (line 506) or to Bounds (lines 511-519,
\* where the result may fail to decode)
WinSent(unmarshalOk) ==
  /\ pc[Win] = "sent"
  /\ LET c == wops[Len(wops)]
         d == CHOOSE x \in done : x.task = Win /\ x.id = sid[Win]
     IN  /\ (c.method # "Browser.getWindowBounds" \/ d.out.kind = "err") => unmarshalOk
         /\ wops' = [wops EXCEPT ![Len(wops)] =
                       [@ EXCEPT !.out = IF d.out.kind = "err" THEN "senderr"
                                         ELSE IF unmarshalOk THEN "ok" ELSE "decodeerr"]]
  /\ pc' = [pc EXCEPT ![Win] = "off"]
  /\ UNCHANGED <<id, allocated, pending, bindings, mutex, ws, inbox, wire, sid, done,
                 dpc, dframe, dout, proc, waited, kills, kcall, log, noise,
                 sends, req, payload, page, ctor,
                 drops, nav, ui, bind>>

\* Construction, headless or with a window, and window operations on the
\* connection it returns
NextWindow ==
  \/ NextCtor
  \/ \E st \in WindowStates : SetBounds(st)
  \/ Bounds
  \/ \E ok \in BOOLEAN : WinSent(ok)
  \/ SendAlloc(Win, TRUE)
  \/ SendLock(Win)
  \/ SendRegister(Win)
  \/ \E res \in {"ok", "err"} : SendWrite(Win, res)
  \/ DispDeliver(Win)
  \/ cpc = "done" /\ Kill
  \/ cpc = "done" /\ KillAdvance(User)

SpecWindow == InitCtor /\ [][NextWindow]_vars

\* C29: the window id is not resolved before the first SetBounds or Bounds
\* needs it, and every one of these operations sends the window id of the
\* target, resolved by the first of them and cached for the later ones.
C29_WindowLazy ==
  /\ wops = <<>> => window = 0
  /\ \A i \in DOMAIN wops : wops[i].windowId = WindowId

====
